---- MODULE Spec2Model ----
(***************************************************************************)
(* django-safedelete: the deletion policies of SafeDeleteModel and of      *)
(* SafeDeleteQueryset over a small relational store.                        *)
(*                                                                         *)
(* The store holds six rows of five models.  Every call is made on an      *)
(* instance freshly loaded from its row (or on a queryset), runs to its    *)
(* end in one step (the calls are synchronous), and leaves in `last` what  *)
(* the caller can observe: the store before the call, the outcome, the     *)
(* signals sent.  `Return` is the caller taking the result.                *)
(***************************************************************************)
EXTENDS Integers, Sequences, FiniteSets, TLC

VARIABLES store, clock, last, querysets, threads

vars == <<store, clock, last, querysets, threads>>

\* Number of calls made in one behaviour (each call advances the clock by one).
MaxCalls == 2

-----------------------------------------------------------------------------
(* config: the policies, the visibilities, the "not deleted" marker.       *)

HARD_DELETE == "HARD_DELETE"
SOFT_DELETE == "SOFT_DELETE"
SOFT_DELETE_CASCADE == "SOFT_DELETE_CASCADE"
HARD_DELETE_NOCASCADE == "HARD_DELETE_NOCASCADE"
NO_DELETE == "NO_DELETE"

Policies == {HARD_DELETE, SOFT_DELETE, SOFT_DELETE_CASCADE, HARD_DELETE_NOCASCADE, NO_DELETE}

None == "None"

DELETED_INVISIBLE == "DELETED_INVISIBLE"
DELETED_VISIBLE_BY_FIELD == "DELETED_VISIBLE_BY_FIELD"
DELETED_ONLY_VISIBLE == "DELETED_ONLY_VISIBLE"
DELETED_VISIBLE == "DELETED_VISIBLE"
DELETED_VISIBLE_BY_PK == "DELETED_VISIBLE_BY_PK"

\* The deleted attribute of a record that is not deleted (1970-01-01); every
\* other value is the time of the deletion, a clock value >= 1.
DEFAULT_DELETED == 0

-----------------------------------------------------------------------------
(* The schema: models, their policies, their foreign keys.                 *)

Models == {"Ref", "Doc", "Leaf", "Note", "Plain"}

Ids == {"r1", "r2", "d1", "l1", "n1", "p1"}

ModelOf == [r1 |-> "Ref", r2 |-> "Ref", d1 |-> "Doc", l1 |-> "Leaf", n1 |-> "Note", p1 |-> "Plain"]

\* _safedelete_policy of the models that inherit from SafeDeleteModel; Plain
\* is a plain models.Model.
safedelete_policy == [Ref |-> SOFT_DELETE_CASCADE, Doc |-> SOFT_DELETE, Leaf |-> NO_DELETE, Note |-> SOFT_DELETE_CASCADE]

CASCADE == "CASCADE"
SET_NULL == "SET_NULL"
NULL == "NULL"

ForeignKeys ==
    { [model |-> "Ref",   name |-> "parent", to |-> "Ref", on_delete |-> CASCADE],
      [model |-> "Doc",   name |-> "ref",    to |-> "Ref", on_delete |-> CASCADE],
      [model |-> "Leaf",  name |-> "doc",    to |-> "Doc", on_delete |-> CASCADE],
      [model |-> "Leaf",  name |-> "ref",    to |-> "Ref", on_delete |-> CASCADE],
      [model |-> "Note",  name |-> "ref",    to |-> "Ref", on_delete |-> SET_NULL],
      [model |-> "Plain", name |-> "ref",    to |-> "Ref", on_delete |-> CASCADE] }

FieldsOf(model) == {f \in ForeignKeys : f.model = model}

is_safedelete_cls(cls) == cls \in DOMAIN safedelete_policy

is_deleted_always(obj) == TRUE

is_deleted(obj) == obj.deleted # DEFAULT_DELETED

SafeIds == {id \in Ids : is_safedelete_cls(ModelOf[id])}

AllOf(model) == {x \in Ids : ModelOf[x] = model}

-----------------------------------------------------------------------------
(* The collector: what a delete of objs would delete by cascade (data,     *)
(* objs included) and update (field_updates).  Related rows are read with  *)
(* the base manager: soft-deleted rows are collected like the others.      *)

CollectData_both_ways(st, data) ==
    data \cup {y \in Ids : st[y].exists /\ \E x \in data : \E n \in DOMAIN st[x].fk : st[x].fk[n] = y}

RECURSIVE CollectData(_, _)
CollectData(st, data) ==
    LET new == {x \in Ids \ data :
                    /\ st[x].exists
                    /\ \E f \in FieldsOf(ModelOf[x]) :
                          f.on_delete = CASCADE /\ st[x].fk[f.name] \in data}
    IN  IF new = {} THEN data ELSE CollectData(st, data \cup new)

get_collector(st, objs) ==
    LET data == CollectData(st, objs)
    IN  [data |-> data,
         field_updates |->
            {u \in [obj : Ids, field : {f.name : f \in ForeignKeys}, value : {NULL}] :
                /\ st[u.obj].exists
                /\ \E f \in FieldsOf(ModelOf[u.obj]) :
                      /\ f.name = u.field
                      /\ f.on_delete = SET_NULL
                      /\ st[u.obj].fk[f.name] \in data}]

\* A dict from model to the instances to delete by cascade: the input objects
\* are left out, and so are, unless return_deleted, the soft-deleted instances
\* of safedelete models; a model with no instance left gets no key.
get_objects_to_delete_with_input(st, objs, return_deleted) ==
    LET collector == get_collector(st, objs)
        instances(model) ==
            LET a == {x \in collector.data : ModelOf[x] = model}
            IN  IF is_safedelete_cls(model)
                    THEN {x \in a : ~is_deleted(st[x]) \/ return_deleted}
                    ELSE a
    IN  [model \in {m \in Models : instances(m) # {}} |-> instances(model)]

get_objects_to_delete_live_only(st, objs, return_deleted) ==
    LET collector == get_collector(st, objs)
        cls == ModelOf[CHOOSE o \in objs : TRUE]
        instances(model) ==
            LET a == {x \in collector.data : ModelOf[x] = model}
                b == IF model = cls THEN a \ objs ELSE a
            IN  IF is_safedelete_cls(model)
                    THEN {x \in b : ~is_deleted(st[x])}
                    ELSE b
    IN  [model \in {m \in Models : instances(m) # {}} |-> instances(model)]

get_objects_to_delete(st, objs, return_deleted) ==
    LET collector == get_collector(st, objs)
        cls == ModelOf[CHOOSE o \in objs : TRUE]
        instances(model) ==
            LET a == {x \in collector.data : ModelOf[x] = model}
                b == IF model = cls THEN a \ objs ELSE a
            IN  IF is_safedelete_cls(model)
                    THEN {x \in b : ~is_deleted(st[x]) \/ return_deleted}
                    ELSE b
    IN  [model \in {m \in Models : instances(m) # {}} |-> instances(model)]

\* can_hard_delete: "Check if it would delete other objects."
can_hard_delete_inverted(st, obj) == DOMAIN get_objects_to_delete(st, {obj}, FALSE) # {}

can_hard_delete(st, obj) == DOMAIN get_objects_to_delete(st, {obj}, FALSE) = {}

-----------------------------------------------------------------------------
(* Return values of delete: (total, {label: count}).                       *)

DeleteReturn(total, per) == [total |-> total, per |-> per]

NoneDeleted == DeleteReturn(0, <<>>)

RECURSIVE concatenate_delete_returns(_)
concatenate_delete_returns(args) ==
    IF args = <<>> THEN NoneDeleted
    ELSE LET h == Head(args)
             t == concatenate_delete_returns(Tail(args))
         IN  DeleteReturn(h.total + t.total,
                 [m \in DOMAIN h.per \cup DOMAIN t.per |->
                     (IF m \in DOMAIN h.per THEN h.per[m] ELSE 0)
                   + (IF m \in DOMAIN t.per THEN t.per[m] ELSE 0)])

-----------------------------------------------------------------------------
(* What a call leaves behind: the store, the return value, the safedelete  *)
(* signals sent (in order), the exception raised ("none" if the call       *)
(* returned) and the deleted attribute of the instance it was called on.   *)

Outcome(st, ret, sigs, raised, deleted) ==
    [store |-> st, ret |-> ret, sigs |-> sigs, raised |-> raised, deleted |-> deleted]

Sent(signal, instance) == [signal |-> signal, instance |-> instance]

\* What may go wrong below the library in one call: a listener of one of the
\* three signals raises, or the database refuses a statement.
FailPoints == {"none", "pre_softdelete", "post_softdelete", "post_undelete",
               "save", "update_deleted", "update_fk"}

\* A row that is not in its table.
Gone(id) ==
    [exists |-> FALSE, deleted |-> DEFAULT_DELETED,
     fk |-> [n \in {f.name : f \in FieldsOf(ModelOf[id])} |-> NULL]]

\* with transaction.atomic(): an exception leaving the block rolls the store
\* back to what it was on entry.
no_rollback(st, out) == out

atomic(st, out) == IF out.raised # "none" THEN [out EXCEPT !.store = st] ELSE out

\* Django's own delete of a set of same-model instances (Model.delete,
\* QuerySet.delete): the collected rows are removed, whatever their deleted
\* attribute, and the SET_NULL keys pointing at them are nulled.
ModelDelete(st, objs) ==
    LET c == get_collector(st, objs)
        nulled(x) == [n \in DOMAIN st[x].fk |->
                        IF [obj |-> x, field |-> n, value |-> NULL] \in c.field_updates
                            THEN NULL ELSE st[x].fk[n]]
        st1 == [x \in Ids |->
                    IF x \in c.data THEN Gone(x)
                    ELSE [st[x] EXCEPT !.fk = nulled(x)]]
        per == [m \in {ModelOf[x] : x \in c.data} |->
                    Cardinality({x \in c.data : ModelOf[x] = m /\ st[x].exists})]
    IN  [store |-> st1,
         ret |-> DeleteReturn(Cardinality({x \in c.data : st[x].exists}), per)]

get_safelete_policy_of_class(cls, force_policy) == safedelete_policy[cls]

get_safelete_policy_cascading(cls, force_policy) ==
    LET policy == IF force_policy = None THEN safedelete_policy[cls] ELSE force_policy
    IN  IF policy = SOFT_DELETE THEN SOFT_DELETE_CASCADE ELSE policy

get_safelete_policy(cls, force_policy) ==
    IF force_policy = None THEN safedelete_policy[cls] ELSE force_policy

\* fast_deletes, objects_to_delete = get_objects_to_delete(...): the returned
\* dict is unpacked by iterating its keys.  Any number of keys but two is a
\* ValueError; with two keys both names are bound to model classes and the
\* loop `for related_objects_qs in fast_deletes` over a class is a TypeError.
\* No dict gets past the two statements.
UnpackError(objects_to_delete) ==
    IF Cardinality(DOMAIN objects_to_delete) # 2 THEN "ValueError" ELSE "TypeError"

\* NO_DELETE: "Don't do anything."
delete_no_delete_counted(st, self) ==
    Outcome(st, DeleteReturn(1, ModelOf[self] :> 1), <<>>, "none", st[self].deleted)

delete_no_delete(st, self) ==
    Outcome(st, NoneDeleted, <<>>, "none", st[self].deleted)

\* HARD_DELETE: Django's Model.delete.
delete_hard(st, self) ==
    LET d == ModelDelete(st, {self})
    IN  Outcome(d.store, d.ret, <<>>, "none", st[self].deleted)

\* super().save(update_fields=["deleted"]): only the deleted column is written.
save_deleted_skipped(st, self, now) == st

save_deleted_every_field(st, self, now) ==
    [st EXCEPT ![self] = [exists |-> TRUE, deleted |-> now, fk |-> Gone(self).fk]]

save_deleted(st, self, now) == [st EXCEPT ![self].deleted = now]

\* SOFT_DELETE and SOFT_DELETE_CASCADE: the instance is marked and saved
\* between the two signals; under SOFT_DELETE_CASCADE the related objects are
\* then asked for.
delete_soft(st, self, current_policy, now, fail) ==
    LET pre  == Sent("pre_softdelete", self)
        post == Sent("post_softdelete", self)
        st1  == save_deleted(st, self, now)
        delete_returns == <<DeleteReturn(1, ModelOf[self] :> 1)>>
    IN  IF fail = "pre_softdelete"
            THEN Outcome(st, NoneDeleted, <<pre>>, "ListenerError", now)
        ELSE IF ~st[self].exists \/ fail = "save"
            THEN Outcome(st, NoneDeleted, <<pre>>, "DatabaseError", now)
        ELSE IF fail = "post_softdelete"
            THEN Outcome(st1, NoneDeleted, <<pre, post>>, "ListenerError", now)
        ELSE IF current_policy = SOFT_DELETE_CASCADE
            THEN Outcome(st1, NoneDeleted, <<pre, post>>,
                         UnpackError(get_objects_to_delete(st1, {self}, FALSE)), now)
        ELSE Outcome(st1, concatenate_delete_returns(delete_returns), <<pre, post>>, "none", now)

\* SafeDeleteModel.delete(force_policy) on the instance `self`, at time now.
\* Under HARD_DELETE_NOCASCADE the method calls itself with
\* force_policy=SOFT_DELETE or HARD_DELETE: the inner call opens its own
\* atomic block and takes the branch of that policy.
delete(st, self, force_policy, now, fail) ==
    LET current_policy == get_safelete_policy(ModelOf[self], force_policy)
    IN  atomic(st,
            IF current_policy = NO_DELETE
                THEN delete_no_delete(st, self)
            ELSE IF current_policy = HARD_DELETE
                THEN delete_hard(st, self)
            ELSE IF current_policy = HARD_DELETE_NOCASCADE
                THEN IF ~can_hard_delete(st, self)
                        THEN atomic(st, delete_soft(st, self,
                                        get_safelete_policy(ModelOf[self], SOFT_DELETE), now, fail))
                        ELSE atomic(st, delete_hard(st, self))
            ELSE delete_soft(st, self, current_policy, now, fail))

\* The instance loaded from the row of id.
Instance(st, id) == [id |-> id, pk |-> TRUE, deleted |-> st[id].deleted, fk |-> st[id].fk]

\* An instance built in memory and not yet saved.
Unsaved(id, deleted) == [id |-> id, pk |-> FALSE, deleted |-> deleted, fk |-> Gone(id).fk]

\* save: whether the post_undelete signal is to be sent after the write.
was_undeleted_whatever_kept(self, keep_deleted) == is_deleted(self) /\ self.pk

was_undeleted(self, keep_deleted) == ~keep_deleted /\ is_deleted(self) /\ self.pk

\* SafeDeleteModel.save(keep_deleted): every field of the instance is written.
save_without_keys(st, self, keep_deleted, fail) ==
    Outcome([st EXCEPT ![self.id] = [exists |-> TRUE, deleted |-> DEFAULT_DELETED,
                                     fk |-> Gone(self.id).fk]],
            NoneDeleted, <<>>, "none", DEFAULT_DELETED)

save(st, self, keep_deleted, fail) ==
    LET undeleted == was_undeleted(self, keep_deleted)
        deleted == IF keep_deleted THEN self.deleted ELSE DEFAULT_DELETED
        st1 == [st EXCEPT ![self.id] = [exists |-> TRUE, deleted |-> deleted, fk |-> self.fk]]
        sent == IF undeleted THEN <<Sent("post_undelete", self.id)>> ELSE <<>>
    IN  IF fail = "save"
            THEN Outcome(st, NoneDeleted, <<>>, "DatabaseError", deleted)
        ELSE IF undeleted /\ fail = "post_undelete"
            THEN Outcome(st1, NoneDeleted, sent, "ListenerError", deleted)
        ELSE Outcome(st1, NoneDeleted, sent, "none", deleted)

\* SafeDeleteModel.undelete(force_policy) on the instance `self`.
undelete(st, self, force_policy, fail) ==
    LET current_policy == IF force_policy = None THEN safedelete_policy[ModelOf[self.id]]
                                                 ELSE force_policy
        saved == save(st, self, FALSE, fail)
    IN  atomic(st,
            IF ~is_deleted(self)
                THEN Outcome(st, NoneDeleted, <<>>, "AssertionError", self.deleted)
            ELSE IF saved.raised # "none"
                THEN saved
            ELSE IF current_policy = SOFT_DELETE_CASCADE
                THEN [saved EXCEPT !.raised =
                        UnpackError(get_objects_to_delete(saved.store, {self.id}, TRUE))]
            ELSE saved)

-----------------------------------------------------------------------------
(* Querysets.  A queryset is a model, the visibility of the manager it     *)
(* comes from, a pk__in filter and whether a slice was taken of it.        *)

\* The condition _filter_visibility adds to the query for a visibility.
filter_visibility_swapped(visibility) ==
    IF visibility \in {DELETED_INVISIBLE, DELETED_VISIBLE_BY_FIELD} THEN "deleted!=DEFAULT_DELETED"
    ELSE IF visibility = DELETED_ONLY_VISIBLE THEN "deleted=DEFAULT_DELETED"
    ELSE "no condition"

filter_visibility(visibility) ==
    IF visibility \in {DELETED_INVISIBLE, DELETED_VISIBLE_BY_FIELD} THEN "deleted=DEFAULT_DELETED"
    ELSE IF visibility = DELETED_ONLY_VISIBLE THEN "deleted!=DEFAULT_DELETED"
    ELSE "no condition"

Satisfies(row, condition) ==
    \/ condition = "no condition"
    \/ condition = "deleted=DEFAULT_DELETED" /\ ~is_deleted(row)
    \/ condition = "deleted!=DEFAULT_DELETED" /\ is_deleted(row)

Queryset(model, visibility, pks, sliced) ==
    [model |-> model, visibility |-> visibility, pks |-> pks, sliced |-> sliced]

\* The rows the queryset yields when it is evaluated on the store; the models
\* that are not safedelete models have Django's plain manager.
Rows(st, q) ==
    {x \in q.pks :
        /\ ModelOf[x] = q.model
        /\ st[x].exists
        /\ \/ ~is_safedelete_cls(q.model)
           \/ Satisfies(st[x], filter_visibility(q.visibility))}

\* model.objects.filter(pk__in=[o.pk for o in objects]).update(field=value) for
\* every group of the collector's field_updates.
perform_updates_every_row(st, objs, fail) ==
    LET collector == get_collector(st, objs)
        hit(x, n) == [obj |-> x, field |-> n, value |-> NULL] \in collector.field_updates
        st1 == [x \in Ids |->
                    [st[x] EXCEPT !.fk = [n \in DOMAIN st[x].fk |->
                                            IF hit(x, n) THEN NULL ELSE st[x].fk[n]]]]
    IN  IF collector.field_updates # {} /\ fail = "update_fk"
            THEN [store |-> st, raised |-> "DatabaseError"]
            ELSE [store |-> st1, raised |-> "none"]

perform_updates(st, objs, fail) ==
    LET collector == get_collector(st, objs)
        hit(x, n) ==
            /\ [obj |-> x, field |-> n, value |-> NULL] \in collector.field_updates
            /\ x \in Rows(st, Queryset(ModelOf[x], DELETED_INVISIBLE, {x}, FALSE))
        st1 == [x \in Ids |->
                    [st[x] EXCEPT !.fk = [n \in DOMAIN st[x].fk |->
                                            IF hit(x, n) THEN NULL ELSE st[x].fk[n]]]]
    IN  IF collector.field_updates # {} /\ fail = "update_fk"
            THEN [store |-> st, raised |-> "DatabaseError"]
            ELSE [store |-> st1, raised |-> "none"]

\* One turn of a loop over instances: h is what the call on the first instance
\* left, t what the turns on the others leave after it; an exception ends the
\* loop.
Then(h, t) ==
    IF h.raised # "none"
        THEN [store |-> h.store, rets |-> <<>>, sigs |-> h.sigs, raised |-> h.raised]
        ELSE [store |-> t.store, rets |-> <<h.ret>> \o t.rets,
              sigs |-> h.sigs \o t.sigs, raised |-> t.raised]

\* A loop `for obj in objs: obj.delete(force_policy)` over a list of instances.
RECURSIVE delete_each(_, _, _, _, _)
delete_each(st, objs, force_policy, now, fail) ==
    IF objs = <<>> THEN [store |-> st, rets |-> <<>>, sigs |-> <<>>, raised |-> "none"]
    ELSE LET h == delete(st, Head(objs), force_policy, now, fail)
         IN  Then(h, delete_each(h.store, Tail(objs), force_policy, now, fail))

\* SafeDeleteQueryset.delete under SOFT_DELETE: count() and
\* update(deleted=timezone.now()) on the rows of q.  It is what the two calls
\* delete(force_policy=SOFT_DELETE) made under SOFT_DELETE_CASCADE come to (on
\* querysets no slice was taken of; their atomic block is nested in the
\* caller's).
qs_delete_soft_signalled(st, q, now, fail) ==
    LET queryset_objects == Rows(st, q)
        nb_objects == Cardinality(queryset_objects)
        updated == [x \in Ids |-> IF x \in queryset_objects
                                    THEN [st[x] EXCEPT !.deleted = now] ELSE st[x]]
        first == CHOOSE x \in queryset_objects : TRUE
    IN  IF fail = "update_deleted"
            THEN Outcome(st, NoneDeleted, <<>>, "DatabaseError", DEFAULT_DELETED)
            ELSE Outcome(updated,
                         concatenate_delete_returns(
                             <<DeleteReturn(nb_objects, q.model :> nb_objects)>>),
                         IF queryset_objects = {} THEN <<>>
                         ELSE <<Sent("pre_softdelete", first), Sent("post_softdelete", first)>>,
                         "none", DEFAULT_DELETED)

qs_delete_soft(st, q, now, fail) ==
    LET queryset_objects == Rows(st, q)
        nb_objects == Cardinality(queryset_objects)
        updated == [x \in Ids |-> IF x \in queryset_objects
                                    THEN [st[x] EXCEPT !.deleted = now] ELSE st[x]]
    IN  IF fail = "update_deleted"
            THEN Outcome(st, NoneDeleted, <<>>, "DatabaseError", DEFAULT_DELETED)
            ELSE Outcome(updated,
                         concatenate_delete_returns(
                             <<DeleteReturn(nb_objects, q.model :> nb_objects)>>),
                         <<>>, "none", DEFAULT_DELETED)

\* The loop over get_objects_to_delete(queryset_objects).items().
delete_related_hard(st, plan, models, now, fail) ==
    [store |-> [x \in Ids |-> IF \E model \in models : x \in plan[model]
                                THEN Gone(x) ELSE st[x]],
     rets |-> <<>>, raised |-> "none"]

delete_related_any_model(st, plan, models, now, fail) ==
    [store |-> [x \in Ids |-> IF \E model \in models : x \in plan[model]
                                THEN [st[x] EXCEPT !.deleted = now] ELSE st[x]],
     rets |-> <<DeleteReturn(Cardinality(UNION {plan[model] : model \in models}),
                             [model \in models |-> Cardinality(plan[model])])>>,
     raised |-> "none"]

delete_related_own_policy(st, plan, models, now, fail) ==
    [store |-> [x \in Ids |->
                   IF \E model \in models :
                          /\ x \in plan[model] /\ is_safedelete_cls(model)
                          /\ safedelete_policy[model] # NO_DELETE
                       THEN [st[x] EXCEPT !.deleted = now] ELSE st[x]],
     rets |-> <<>>, raised |-> "none"]

RECURSIVE delete_related(_, _, _, _, _)
delete_related(st, plan, models, now, fail) ==
    IF models = {} THEN [store |-> st, rets |-> <<>>, raised |-> "none"]
    ELSE LET model == CHOOSE m \in models : TRUE
             h == IF is_safedelete_cls(model)
                    THEN qs_delete_soft(st, Queryset(model, DELETED_INVISIBLE, plan[model], FALSE),
                                        now, fail)
                    ELSE Outcome(st, NoneDeleted, <<>>, "none", DEFAULT_DELETED)
             t == delete_related(h.store, plan, models \ {model}, now, fail)
         IN  IF h.raised # "none"
                THEN [store |-> h.store, rets |-> <<>>, raised |-> h.raised]
                ELSE [store |-> t.store,
                      rets |-> (IF is_safedelete_cls(model) THEN <<h.ret>> ELSE <<>>) \o t.rets,
                      raised |-> t.raised]

\* SafeDeleteQueryset.delete(force_policy) on the queryset q, at time now.
\* order is the order in which the database yields the rows of q.
qs_delete(st, q, force_policy, now, fail, order) ==
    LET current_policy == get_safelete_policy(q.model, force_policy)
        queryset_objects == Rows(st, q)
        each == delete_each(st, order, force_policy, now, fail)
        roots == qs_delete_soft(st, q, now, fail)
        plan == get_objects_to_delete(roots.store, queryset_objects, FALSE)
        related == delete_related(roots.store, plan, DOMAIN plan, now, fail)
        updates == perform_updates(related.store, queryset_objects, fail)
        raise(st2, sigs, error) == Outcome(st2, NoneDeleted, sigs, error, DEFAULT_DELETED)
        return(st2, rets, sigs) ==
            Outcome(st2, concatenate_delete_returns(rets), sigs, "none", DEFAULT_DELETED)
    IN  IF q.sliced
            THEN raise(st, <<>>, "AssertionError")
        ELSE atomic(st,
            IF current_policy = NO_DELETE
                THEN Outcome(st, NoneDeleted, <<>>, "none", DEFAULT_DELETED)
            ELSE IF current_policy = HARD_DELETE
                THEN LET d == ModelDelete(st, queryset_objects)
                     IN  Outcome(d.store, d.ret, <<>>, "none", DEFAULT_DELETED)
            ELSE IF current_policy = HARD_DELETE_NOCASCADE
                THEN IF each.raised # "none"
                        THEN raise(each.store, each.sigs, each.raised)
                        ELSE return(each.store, each.rets, each.sigs)
            ELSE IF current_policy = SOFT_DELETE
                THEN qs_delete_soft(st, q, now, fail)
            ELSE IF queryset_objects = {}
                THEN Outcome(st, NoneDeleted, <<>>, "none", DEFAULT_DELETED)
            ELSE IF roots.raised # "none"
                THEN raise(roots.store, <<>>, roots.raised)
            ELSE IF related.raised # "none"
                THEN raise(related.store, <<>>, related.raised)
            ELSE IF updates.raised # "none"
                THEN raise(updates.store, <<>>, updates.raised)
            ELSE return(updates.store, <<roots.ret>> \o related.rets, <<>>))

\* The loop `for obj in self.all(): obj.undelete(force_policy)`: the instances
\* are those the query returned when the loop began (fetched is the store
\* then); every undelete has its own atomic block.
RECURSIVE undelete_each(_, _, _, _, _)
undelete_each(fetched, st, objs, force_policy, fail) ==
    IF objs = <<>> THEN [store |-> st, rets |-> <<>>, sigs |-> <<>>, raised |-> "none"]
    ELSE LET h == undelete(st, Instance(fetched, Head(objs)), force_policy, fail)
         IN  Then(h, undelete_each(fetched, h.store, Tail(objs), force_policy, fail))

\* SafeDeleteQueryset.undelete(force_policy) on the queryset q.  order is the
\* order in which the database yields the rows of q.  There is no atomic
\* block around the loop: what the undeletes before a failing one wrote stays.
qs_undelete_any_shape(st, q, force_policy, fail, order) ==
    LET each == undelete_each(st, st, order, force_policy, fail)
    IN  Outcome(each.store, NoneDeleted, each.sigs, each.raised, DEFAULT_DELETED)

qs_undelete(st, q, force_policy, fail, order) ==
    LET each == undelete_each(st, st, order, force_policy, fail)
    IN  IF q.sliced
            THEN Outcome(st, NoneDeleted, <<>>, "AssertionError", DEFAULT_DELETED)
            ELSE Outcome(each.store, NoneDeleted, each.sigs, each.raised, DEFAULT_DELETED)

-----------------------------------------------------------------------------
(* The queryset as an object: the attributes the manager and _clone give   *)
(* it, the conditions of its query (where, in the order they were added)   *)
(* and whether a slice was taken of it (query.can_filter() is then false). *)

\* No queryset (where one may be given or returned).
Absent == [model |-> NULL]

\* The queryset a manager hands out (get_queryset): nothing applied yet.
SafeDeleteQueryset(model, visibility, visibility_field) ==
    [model |-> model,
     safedelete_visibility |-> visibility,
     safedelete_visibility_field |-> visibility_field,
     safedelete_force_visibility |-> None,
     safedelete_filter_applied |-> FALSE,
     where |-> <<>>,
     sliced |-> FALSE]

\* A condition of a query: lookup=value, negated or not; sub is the where of
\* the query embedded as the value of an __in lookup.
Q(lookup, value, negated, sub) ==
    [lookup |-> lookup, value |-> value, negated |-> negated, sub |-> sub]

\* The condition add_q is given for one of the strings of filter_visibility.
deleted_Q_plain(condition) ==
    Q("deleted", "DEFAULT_DELETED", FALSE, <<>>)

deleted_Q(condition) ==
    Q("deleted", "DEFAULT_DELETED", condition = "deleted!=DEFAULT_DELETED", <<>>)

\* What an operation on a queryset leaves: the queryset itself and the
\* queryset passed as a value (both changed in place), the queryset returned
\* (a clone, or Absent) and the exception raised.
Built(self, value, clone, raised) ==
    [self |-> self, value |-> value, clone |-> clone, raised |-> raised]

\* _clone: the attributes and the query are carried over.
clone_of_fresh(self) ==
    [self EXCEPT !.safedelete_force_visibility = None,
                 !.safedelete_filter_applied = FALSE]

clone_of(self) == self

\* The visibility _filter_visibility goes by.
effective_visibility(self) ==
    IF self.safedelete_force_visibility # None
        THEN self.safedelete_force_visibility
        ELSE self.safedelete_visibility

\* _filter_visibility: adds the deleted condition to the query of self, once.
qs_filter_visibility_unguarded(self) ==
    LET visibility == effective_visibility(self)
    IN  IF visibility \in {DELETED_INVISIBLE, DELETED_VISIBLE_BY_FIELD, DELETED_ONLY_VISIBLE}
            THEN IF self.sliced
                    THEN Built(self, Absent, Absent, "AssertionError")
                    ELSE Built([self EXCEPT
                                    !.where = Append(@, deleted_Q(filter_visibility(visibility))),
                                    !.safedelete_filter_applied = TRUE],
                               Absent, Absent, "none")
            ELSE Built(self, Absent, Absent, "none")

qs_filter_visibility(self) ==
    LET visibility == effective_visibility(self)
    IN  IF ~self.safedelete_filter_applied
           /\ visibility \in {DELETED_INVISIBLE, DELETED_VISIBLE_BY_FIELD, DELETED_ONLY_VISIBLE}
            THEN IF self.sliced
                    THEN Built(self, Absent, Absent, "AssertionError")
                    ELSE Built([self EXCEPT
                                    !.where = Append(@, deleted_Q(filter_visibility(visibility))),
                                    !.safedelete_filter_applied = TRUE],
                               Absent, Absent, "none")
            ELSE Built(self, Absent, Absent, "none")

\* _check_field_filter: a keyword naming the visibility field of a
\* DELETED_VISIBLE_BY_FIELD queryset forces DELETED_VISIBLE on it.
check_field_filter(self, kwargs) ==
    IF self.safedelete_visibility = DELETED_VISIBLE_BY_FIELD
       /\ self.safedelete_visibility_field \in kwargs
        THEN [self EXCEPT !.safedelete_force_visibility = DELETED_VISIBLE]
        ELSE self

\* filter_visibility_sub_queryset: the same on a queryset passed as a value.
filter_visibility_sub_queryset(sub_queryset) == qs_filter_visibility(sub_queryset)

\* The keyword lookups that take a queryset as their value, and the foreign
\* key each goes through.
in_lookups == [doc__in |-> "doc", ref__in |-> "ref", parent__in |-> "parent"]

\* filter(...) and exclude(...) with one predicate lookup=value, given as a
\* keyword argument (form "kwargs") or as a Q object (form "Q"); value is an
\* id, or a queryset (sub, Absent otherwise).  filter looks for the visibility
\* field among the keywords, exclude does not; _filter_or_exclude then gives
\* the querysets found among the keyword values their visibility condition,
\* and Django clones self and adds the predicate, unless a slice was taken.
filter_or_exclude(self, negate, form, lookup, value, sub) ==
    LET kwargs  == IF form = "kwargs" THEN {lookup} ELSE {}
        self1   == IF negate THEN self ELSE check_field_filter(self, kwargs)
        visible == IF sub.model # NULL /\ form = "kwargs"
                      THEN filter_visibility_sub_queryset(sub)
                      ELSE Built(sub, Absent, Absent, "none")
        sub1    == visible.self
        added   == Q(lookup, value, negate, IF sub.model # NULL THEN sub1.where ELSE <<>>)
    IN  IF visible.raised # "none"
            THEN Built(self1, sub, Absent, visible.raised)
        ELSE IF self1.sliced
            THEN Built(self1, sub1, Absent, "AssertionError")
        ELSE Built(self1, sub1, [clone_of(self1) EXCEPT !.where = Append(@, added)], "none")

\* all(force_visibility): the visibility forced is set on self, then cloned.
qs_all(self, force_visibility) ==
    LET self1 == IF force_visibility # None
                    THEN [self EXCEPT !.safedelete_force_visibility = force_visibility]
                    ELSE self
    IN  Built(self1, Absent, clone_of(self1), "none")

\* __getitem__ with a slice: the visibility condition first, then the slice
\* of a clone.
getitem(self) ==
    LET visible == qs_filter_visibility(self)
    IN  IF visible.raised # "none"
            THEN visible
            ELSE Built(visible.self, Absent, [clone_of(visible.self) EXCEPT !.sliced = TRUE], "none")

\* Whether the row x of st meets a condition with no embedded query.
HoldsPlain(st, x, c) ==
    IF c.lookup = "deleted"
        THEN (st[x].deleted = DEFAULT_DELETED) # c.negated
        ELSE (x = c.value) # c.negated

\* Whether the row x (of model) meets the condition c.
Holds(st, model, x, c) ==
    IF c.lookup \in DOMAIN in_lookups
        THEN LET f == CHOOSE f \in FieldsOf(model) : f.name = in_lookups[c.lookup]
                 inner == {y \in Ids : /\ ModelOf[y] = f.to
                                       /\ st[y].exists
                                       /\ \A i \in DOMAIN c.sub : HoldsPlain(st, y, c.sub[i])}
             IN  (st[x].fk[f.name] \in inner) # c.negated
        ELSE HoldsPlain(st, x, c)

\* The rows the database returns for the query of a queryset (the slices
\* taken are wide enough for every row).
fetch(st, self) ==
    {x \in Ids : /\ ModelOf[x] = self.model
                 /\ st[x].exists
                 /\ \A i \in DOMAIN self.where : Holds(st, self.model, x, self.where[i])}

\* The evaluation methods (count, exists, _fetch_all, iterator, update, ...):
\* __getattribute__ calls _filter_visibility before the method runs.
evaluate(st, self) ==
    LET visible == qs_filter_visibility(self)
    IN  [self |-> visible.self, raised |-> visible.raised,
         rows |-> IF visible.raised = "none" THEN fetch(st, visible.self) ELSE {}]

\* The foreign keys of a model in the order of _meta.fields.
meta_fields == [Ref |-> <<"parent">>, Doc |-> <<"ref">>, Leaf |-> <<"doc", "ref">>,
                Note |-> <<"ref">>, Plain |-> <<"ref">>]

\* deleted_objects.filter(pk=pk).exists() on the model a foreign key points to.
deleted_objects_exists(st, related_model, pk) ==
    LET deleted_objects == SafeDeleteQueryset(related_model, DELETED_ONLY_VISIBLE, "pk")
        found == filter_or_exclude(deleted_objects, FALSE, "kwargs", "pk", pk, Absent).clone
    IN  evaluate(st, found).rows # {}

\* The first foreign key, in the order of the fields, that create refuses:
\* one given by id (<name>_id=pk; forms[name] = "id") whose row is
\* soft-deleted; 0 if there is none.  A key given as an instance
\* (<name>=instance) is not looked at.
refused_whatever_setting(st, model, fk, forms, allow) ==
    LET names == meta_fields[model]
        bad == {i \in DOMAIN names :
                    /\ forms[names[i]] = "id"
                    /\ fk[names[i]] # NULL
                    /\ deleted_objects_exists(st,
                          (CHOOSE f \in FieldsOf(model) : f.name = names[i]).to, fk[names[i]])}
    IN  IF bad = {} THEN 0
        ELSE CHOOSE i \in bad : \A j \in bad : i <= j

refused(st, model, fk, forms, allow) ==
    LET names == meta_fields[model]
        bad == {i \in DOMAIN names :
                    /\ forms[names[i]] = "id"
                    /\ fk[names[i]] # NULL
                    /\ deleted_objects_exists(st,
                          (CHOOSE f \in FieldsOf(model) : f.name = names[i]).to, fk[names[i]])}
    IN  IF allow \/ bad = {} THEN 0
        ELSE CHOOSE i \in bad : \A j \in bad : i <= j

\* SafeDeleteQueryset.create(**kwargs) of the row id with the foreign keys fk;
\* allow is the setting SAFE_DELETE_ALLOW_FK_TO_SOFT_DELETED_OBJECTS.  The
\* message of the error names the model and the key of the related object.
create(st, id, fk, forms, allow) ==
    LET model == ModelOf[id]
        i == refused(st, model, fk, forms, allow)
        name == meta_fields[model][i]
        obj == [Unsaved(id, DEFAULT_DELETED) EXCEPT !.fk = fk]
        saved == save(st, obj, FALSE, "none")
    IN  IF i # 0
            THEN [store |-> st, raised |-> "SafeDeleteIntegrityError",
                  message |-> [related_model |->
                                   (CHOOSE f \in FieldsOf(model) : f.name = name).to,
                               pk |-> fk[name]]]
            ELSE [store |-> saved.store, raised |-> "none",
                  message |-> [related_model |-> NULL, pk |-> NULL]]

-----------------------------------------------------------------------------
(* The state machine.                                                      *)

NoQuery == Queryset("Ref", DELETED_INVISIBLE, {}, FALSE)

NoCall ==
    [op |-> "none", self |-> NULL, q |-> NoQuery, force_policy |-> None, policy |-> None,
     keep_deleted |-> FALSE, pk |-> FALSE,
     pre |-> <<>>, out |-> Outcome(<<>>, NoneDeleted, <<>>, "none", DEFAULT_DELETED)]

\* The names the caller holds querysets under, and no queryset held.
Handles == {"a", "b"}

NoQuerysets == [h \in Handles |-> Absent]

\* The threads of the second caller model further down, and no call running.
Threads == {"t1", "t2"}

NoThread ==
    [pc |-> "idle", op |-> "none",
     self |-> [id |-> NULL, pk |-> FALSE, deleted |-> DEFAULT_DELETED, fk |-> <<>>],
     force_policy |-> None,
     frame_policy |-> None, now |-> DEFAULT_DELETED, depth |-> 0, writes |-> <<>>,
     ret |-> NoneDeleted, sigs |-> <<>>, raised |-> "none"]


Live(fk) == [exists |-> TRUE, deleted |-> DEFAULT_DELETED, fk |-> fk]

\* Every record is created live.  The two Ref rows may reference each other,
\* the Leaf references the Doc and possibly the Ref the Doc references, the
\* Note references one of the Refs.
Init ==
    /\ \E rp1 \in {NULL, "r2"}, rp2 \in {NULL, "r1"}, lr \in {NULL, "r1"}, nr \in {"r1", "r2"} :
          store = [r1 |-> Live([parent |-> rp1]),
                   r2 |-> Live([parent |-> rp2]),
                   d1 |-> Live([ref |-> "r1"]),
                   l1 |-> Live([doc |-> "d1", ref |-> lr]),
                   n1 |-> Live([ref |-> nr]),
                   p1 |-> Live([ref |-> "r1"])]
    /\ clock = 0
    /\ last = NoCall
    /\ querysets = NoQuerysets
    /\ threads = [t \in Threads |-> NoThread]

Idle == last.op = "none" /\ clock < MaxCalls

Call(op, self, q, force_policy, policy, keep_deleted, pk, out) ==
    /\ store' = out.store
    /\ clock' = clock + 1
    /\ last' = [op |-> op, self |-> self, q |-> q, force_policy |-> force_policy,
                policy |-> policy, keep_deleted |-> keep_deleted, pk |-> pk,
                pre |-> store, out |-> out]
    /\ UNCHANGED <<querysets, threads>>

\* instance.delete(force_policy=...)
Delete ==
    /\ Idle
    /\ \E self \in SafeIds, force_policy \in Policies \cup {None}, fail \in FailPoints :
          /\ store[self].exists
          /\ Call("delete", self, NoQuery, force_policy,
                  get_safelete_policy(ModelOf[self], force_policy), FALSE, TRUE,
                  delete(store, self, force_policy, clock + 1, fail))

\* instance.undelete(force_policy=...)
Undelete ==
    /\ Idle
    /\ \E self \in SafeIds, force_policy \in (Policies \ {HARD_DELETE}) \cup {None},
          fail \in FailPoints :
          /\ store[self].exists
          /\ Call("undelete", self, NoQuery, force_policy,
                  get_safelete_policy(ModelOf[self], force_policy), FALSE, TRUE,
                  undelete(store, Instance(store, self), force_policy, fail))

\* instance.save(keep_deleted=...), on a loaded instance or on a new one.
Save ==
    /\ Idle
    /\ \E self \in SafeIds, keep_deleted \in BOOLEAN, fail \in FailPoints,
          deleted \in {DEFAULT_DELETED, clock + 1} :
          LET instance == IF store[self].exists THEN Instance(store, self)
                                                ELSE Unsaved(self, deleted)
          IN  Call("save", self, NoQuery, None, None, keep_deleted, instance.pk,
                   save(store, instance, keep_deleted, fail))

Orders(S) ==
    {o \in [1..Cardinality(S) -> S] : \A i, j \in 1..Cardinality(S) : o[i] = o[j] => i = j}

\* The querysets delete and undelete are called on: objects, deleted_objects
\* or all_objects of a safedelete model with a pk__in filter, or a slice of
\* objects.all() or of deleted_objects.all().
Queries ==
    LET of(model) == {x \in Ids : ModelOf[x] = model}
    IN  UNION {
            {Queryset(model, visibility, pks, FALSE) :
                visibility \in {DELETED_INVISIBLE, DELETED_ONLY_VISIBLE, DELETED_VISIBLE},
                pks \in (SUBSET of(model)) \ {{}}}
            \cup {Queryset(model, visibility, of(model), TRUE) :
                    visibility \in {DELETED_INVISIBLE, DELETED_ONLY_VISIBLE}} :
            model \in DOMAIN safedelete_policy}

\* queryset.delete(force_policy=...)
BulkDelete ==
    /\ Idle
    /\ \E q \in Queries, force_policy \in Policies \cup {None}, fail \in FailPoints :
          \E order \in Orders(Rows(store, q)) :
              Call("qs_delete", NULL, q, force_policy,
                   get_safelete_policy(q.model, force_policy), FALSE, FALSE,
                   qs_delete(store, q, force_policy, clock + 1, fail, order))

\* queryset.undelete(force_policy=...)
BulkUndelete ==
    /\ Idle
    /\ \E q \in Queries, force_policy \in (Policies \ {HARD_DELETE}) \cup {None},
          fail \in FailPoints :
          \E order \in Orders(Rows(store, q)) :
              Call("qs_undelete", NULL, q, force_policy,
                   get_safelete_policy(q.model, force_policy), FALSE, FALSE,
                   qs_undelete(store, q, force_policy, fail, order))

\* The caller takes the result of the call.
Return ==
    /\ last.op # "none"
    /\ last' = NoCall
    /\ UNCHANGED <<store, clock, querysets, threads>>

Next == Delete \/ Undelete \/ Save \/ BulkDelete \/ BulkUndelete \/ Return

Spec == Init /\ [][Next]_vars

-----------------------------------------------------------------------------
(* The querysets: a second state machine, of a caller that gets querysets  *)
(* from the managers, narrows, slices and evaluates them, and creates      *)
(* records, over a store in which the Doc and the Leaf may have been       *)
(* soft-deleted by earlier calls.                                          *)

\* Calls made before the first state, and calls made from it on.
QueryStart == 2

MaxQueryCalls == 4

QueryModels == {"Doc", "Leaf"}

Visibilities == {DELETED_INVISIBLE, DELETED_VISIBLE_BY_FIELD, DELETED_VISIBLE_BY_PK,
                 DELETED_ONLY_VISIBLE, DELETED_VISIBLE}

\* The Doc live or soft-deleted at time 1; the Leaf live, soft-deleted at
\* time 2 or hard-deleted.
QueryInit ==
    /\ \E dd \in {DEFAULT_DELETED, 1}, ld \in {DEFAULT_DELETED, 2}, le \in BOOLEAN :
          /\ le \/ ld = DEFAULT_DELETED
          /\ store = [r1 |-> Live([parent |-> NULL]),
                      r2 |-> Live([parent |-> NULL]),
                      d1 |-> [Live([ref |-> "r1"]) EXCEPT !.deleted = dd],
                      l1 |-> IF le THEN [Live([doc |-> "d1", ref |-> NULL]) EXCEPT !.deleted = ld]
                                   ELSE Gone("l1"),
                      n1 |-> Live([ref |-> "r1"]),
                      p1 |-> Live([ref |-> "r1"])]
    /\ clock = QueryStart
    /\ last = NoCall
    /\ querysets = NoQuerysets
    /\ threads = [t \in Threads |-> NoThread]

QueryIdle == clock < QueryStart + MaxQueryCalls

\* What a call on a queryset leaves in `last`: the operation and its
\* arguments, the querysets before it, what it built and the rows it returned.
QueryCall(op, h, v, t, args, built, rows) ==
    /\ clock' = clock + 1
    /\ last' = [op |-> op, h |-> h, v |-> v, t |-> t, args |-> args,
                self |-> querysets[h], sub |-> IF v = NULL THEN Absent ELSE querysets[v],
                pre |-> store, built |-> built, rows |-> rows]
    /\ querysets' = [x \in Handles |->
                        IF built.raised = "none" /\ x = t THEN built.clone
                        ELSE IF x = h THEN built.self
                        ELSE IF x = v THEN built.value
                        ELSE querysets[x]]
    /\ UNCHANGED threads

NoArgs == [negate |-> FALSE, form |-> "kwargs", lookup |-> NULL, value |-> NULL,
           force_visibility |-> None]

\* h = Model.objects, Model.all_objects, ...: a manager hands out a queryset,
\* kept under a name not in use.
Manager ==
    /\ QueryIdle
    /\ \E h \in Handles, model \in QueryModels, visibility \in Visibilities :
          /\ querysets[h].model = NULL
          /\ QueryCall("manager", h, NULL, h, NoArgs,
                       Built(querysets[h], Absent,
                             SafeDeleteQueryset(model, visibility, "pk"), "none"), {})
          /\ UNCHANGED store

\* t = h.filter(pk=id), h.exclude(pk=id), with the keyword or with Q(pk=id).
Filter ==
    /\ QueryIdle
    /\ \E h \in Handles, t \in Handles, negate \in BOOLEAN, form \in {"kwargs", "Q"} :
          /\ querysets[h].model # NULL
          /\ \E id \in AllOf(querysets[h].model) :
                QueryCall("filter", h, NULL, t,
                          [NoArgs EXCEPT !.negate = negate, !.form = form,
                                         !.lookup = "pk", !.value = id],
                          filter_or_exclude(querysets[h], negate, form, "pk", id, Absent), {})
          /\ UNCHANGED store

\* h = h.filter(doc__in=v), h.exclude(doc__in=v), with the keyword or with
\* Q(doc__in=v): v is a queryset of the model the foreign key points to.
FilterIn ==
    /\ QueryIdle
    /\ \E h \in Handles, v \in Handles, t \in Handles, negate \in BOOLEAN,
          form \in {"kwargs", "Q"}, lookup \in DOMAIN in_lookups :
          /\ h # v /\ t = h
          /\ querysets[h].model # NULL
          /\ querysets[v].model # NULL
          /\ \E f \in FieldsOf(querysets[h].model) :
                f.name = in_lookups[lookup] /\ f.to = querysets[v].model
          /\ \A i \in DOMAIN querysets[v].where :
                querysets[v].where[i].lookup \notin DOMAIN in_lookups
          /\ QueryCall("filter", h, v, t,
                       [NoArgs EXCEPT !.negate = negate, !.form = form,
                                      !.lookup = lookup, !.value = "queryset"],
                       filter_or_exclude(querysets[h], negate, form, lookup, "queryset",
                                         querysets[v]), {})
          /\ UNCHANGED store

\* h = h.all(force_visibility=...)
All ==
    /\ QueryIdle
    /\ \E h \in Handles, t \in Handles,
          force_visibility \in {None, DELETED_INVISIBLE, DELETED_ONLY_VISIBLE, DELETED_VISIBLE} :
          /\ t = h
          /\ querysets[h].model # NULL
          /\ QueryCall("all", h, NULL, t,
                       [NoArgs EXCEPT !.force_visibility = force_visibility],
                       qs_all(querysets[h], force_visibility), {})
          /\ UNCHANGED store

\* h = h[:n]
GetItem ==
    /\ QueryIdle
    /\ \E h \in Handles, t \in Handles :
          /\ t = h
          /\ querysets[h].model # NULL
          /\ QueryCall("getitem", h, NULL, t, NoArgs, getitem(querysets[h]), {})
          /\ UNCHANGED store

\* h.count(), h.exists(), list(h), ...: nothing is returned under a name.
Evaluate ==
    /\ QueryIdle
    /\ \E h \in Handles :
          /\ querysets[h].model # NULL
          /\ LET e == evaluate(store, querysets[h])
             IN  QueryCall("evaluate", h, NULL, h, NoArgs,
                           Built(e.self, Absent, e.self, e.raised), e.rows)
          /\ UNCHANGED store

\* Leaf.objects.create(doc_id=..., ref=...), with the setting on or off.
Create ==
    /\ QueryIdle
    /\ \E id \in {x \in Ids : ModelOf[x] \in QueryModels /\ ~store[x].exists},
          allow \in BOOLEAN :
          \E fk \in [{"doc", "ref"} -> {NULL, "d1", "r1"}],
             forms \in [{"doc", "ref"} -> {"id", "instance"}] :
             /\ fk.doc = "d1" /\ fk.ref \in {NULL, "r1"}
             /\ LET out == create(store, id, fk, forms, allow)
                IN  /\ store' = out.store
                    /\ clock' = clock + 1
                    /\ last' = [op |-> "create", h |-> NULL, v |-> NULL, t |-> NULL,
                                args |-> [id |-> id, fk |-> fk, forms |-> forms, allow |-> allow],
                                self |-> Absent, sub |-> Absent, pre |-> store,
                                built |-> [raised |-> out.raised, message |-> out.message],
                                rows |-> {}]
                    /\ UNCHANGED <<querysets, threads>>

QueryNext == Manager \/ Filter \/ FilterIn \/ All \/ GetItem \/ Evaluate \/ Create

QuerySpec == QueryInit /\ [][QueryNext]_vars

-----------------------------------------------------------------------------
(* Properties.  They are read in the state a call leaves: last.pre is the  *)
(* store before the call, store the store after it, clock the time the     *)
(* call was made at.                                                       *)

\* The rows model.objects (DELETED_INVISIBLE), model.deleted_objects
\* (DELETED_ONLY_VISIBLE) or model.all_objects (DELETED_VISIBLE) returns.
Objects(st, model, visibility) == Rows(st, Queryset(model, visibility, AllOf(model), FALSE))

\* The errors that come from below the library (a listener, the database),
\* as opposed to the ones the library raises itself.
Injected == {"ListenerError", "DatabaseError"}

\* The rows holding a foreign key to r, and those among them whose key is
\* declared with the given on_delete.
Referencing(st, r) ==
    {x \in Ids : st[x].exists /\ \E n \in DOMAIN st[x].fk : st[x].fk[n] = r}

ReferencingBy(st, r, on_delete) ==
    {x \in Ids : st[x].exists /\ \E f \in FieldsOf(ModelOf[x]) :
                    f.on_delete = on_delete /\ st[x].fk[f.name] = r}

\* The rows that reach r through one or more CASCADE keys.
RECURSIVE CascadeDependents(_, _, _)
CascadeDependents(st, frontier, found) ==
    LET next == UNION {ReferencingBy(st, r, CASCADE) : r \in frontier} \ found
    IN  IF next = {} THEN found ELSE CascadeDependents(st, next, found \cup next)

SingleDelete(policy) == last.op = "delete" /\ last.policy = policy

BulkDelete_(policy) == last.op = "qs_delete" /\ last.policy = policy /\ ~last.q.sliced

Returned == last.out.raised = "none"

\* C1: after delete(r) under SOFT_DELETE has returned, r.deleted is not the
\* marker, objects (DELETED_INVISIBLE) does not return r and all_objects
\* (DELETED_VISIBLE) does.
C1_SoftDeleteHides ==
    (SingleDelete(SOFT_DELETE) /\ Returned) =>
        /\ last.out.deleted # DEFAULT_DELETED
        /\ last.self \notin Objects(store, ModelOf[last.self], DELETED_INVISIBLE)
        /\ last.self \in Objects(store, ModelOf[last.self], DELETED_VISIBLE)

C1_Witness ==
    /\ SingleDelete(SOFT_DELETE) /\ Returned
    /\ last.self \in Objects(last.pre, ModelOf[last.self], DELETED_INVISIBLE)

\* C2: a single-record delete(r) under SOFT_DELETE_CASCADE, nothing failing
\* below the library, returns and leaves soft-deleted every record of a
\* safedelete model that was live and reached r through CASCADE keys.
C2_CascadeSoftDeletesDependents ==
    (SingleDelete(SOFT_DELETE_CASCADE) /\ last.out.raised \notin Injected) =>
        /\ Returned
        /\ \A d \in (CascadeDependents(last.pre, {last.self}, {}) \cap SafeIds) \ {last.self} :
              ~is_deleted(last.pre[d]) => is_deleted(store[d])

\* C3: after a delete under SOFT_DELETE_CASCADE (single-record or bulk),
\* nothing failing below the library, every live dependent whose SET_NULL key
\* pointed at a deleted root has a null key and is still live.
C3_CascadeNullifies ==
    ((SingleDelete(SOFT_DELETE_CASCADE) \/ BulkDelete_(SOFT_DELETE_CASCADE))
        /\ last.out.raised \notin Injected) =>
        LET roots == IF last.op = "delete" THEN {last.self} ELSE Rows(last.pre, last.q)
        IN  \A r \in roots : \A d \in ReferencingBy(last.pre, r, SET_NULL) :
                ~is_deleted(last.pre[d]) =>
                    /\ \A f \in FieldsOf(ModelOf[d]) :
                          (f.on_delete = SET_NULL /\ last.pre[d].fk[f.name] = r)
                              => store[d].fk[f.name] = NULL
                    /\ ~is_deleted(store[d])

NoDeleteCall == last.op \in {"delete", "qs_delete"} /\ last.policy = NO_DELETE

Untouched == store = last.pre /\ last.out.sigs = <<>>

\* C4 as stated: under NO_DELETE, delete in the single-record and in the bulk
\* form returns (0, {}), changes no row and sends no signal.
C4_NoDeleteAlwaysReturns ==
    NoDeleteCall => (Returned /\ last.out.ret = NoneDeleted /\ Untouched)

\* C4, amended: so it is for the single-record form and for the bulk form on a
\* queryset no slice was taken of; on a sliced queryset the bulk form raises
\* AssertionError, and changes no row and sends no signal either.
C4_NoDelete ==
    NoDeleteCall =>
        /\ Untouched
        /\ IF last.op = "qs_delete" /\ last.q.sliced
              THEN last.out.raised = "AssertionError"
              ELSE Returned /\ last.out.ret = NoneDeleted

C4_Witness ==
    /\ NoDeleteCall /\ last.op = "qs_delete" /\ ~last.q.sliced
    /\ Rows(last.pre, last.q) # {}

\* C5: under HARD_DELETE_NOCASCADE, delete(r) on a record some row references
\* (by whatever key, live or soft-deleted) removes no row and leaves the
\* state, the result and the signals of delete(r, force_policy=SOFT_DELETE).
C5_NoCascadeFallsBackToSoft ==
    (SingleDelete(HARD_DELETE_NOCASCADE) /\ last.out.raised \notin Injected
        /\ Referencing(last.pre, last.self) # {}) =>
        LET soft == delete(last.pre, last.self, SOFT_DELETE, clock, "none")
        IN  /\ \A x \in Ids : store[x].exists = last.pre[x].exists
            /\ store = soft.store
            /\ last.out.ret = soft.ret
            /\ last.out.sigs = soft.sigs
            /\ last.out.raised = soft.raised

\* C6: under HARD_DELETE_NOCASCADE, delete(r) on a record no row references
\* removes the row of r (no manager returns it any more) and changes no other
\* row.
C6_NoCascadeHardDeletesUnreferenced ==
    (SingleDelete(HARD_DELETE_NOCASCADE) /\ Referencing(last.pre, last.self) = {}) =>
        /\ Returned
        /\ ~store[last.self].exists
        /\ \A visibility \in {DELETED_INVISIBLE, DELETED_ONLY_VISIBLE, DELETED_VISIBLE} :
              last.self \notin Objects(store, ModelOf[last.self], visibility)
        /\ \A x \in Ids \ {last.self} : store[x] = last.pre[x]

C6_Witness ==
    /\ SingleDelete(HARD_DELETE_NOCASCADE) /\ Referencing(last.pre, last.self) = {}
    /\ last.pre[last.self].exists
    /\ \E x \in Ids \ {last.self} : is_deleted(last.pre[x])

\* C7: undelete(r) under SOFT_DELETE_CASCADE on a soft-deleted root, nothing
\* failing below the library, makes live the dependents that were soft-deleted
\* by the delete that soft-deleted r (they carry the deletion time of r) and
\* leaves soft-deleted the ones that were soft-deleted by another call.
C7_UndeleteReactivatesItsCascade ==
    (last.op = "undelete" /\ last.policy = SOFT_DELETE_CASCADE
        /\ is_deleted(last.pre[last.self]) /\ last.out.raised \notin Injected) =>
        \A d \in (CascadeDependents(last.pre, {last.self}, {}) \cap SafeIds) \ {last.self} :
            is_deleted(last.pre[d]) =>
                (is_deleted(store[d]) <=> last.pre[d].deleted # last.pre[last.self].deleted)

Count(ret, model) == IF model \in DOMAIN ret.per THEN ret.per[model] ELSE 0

\* C8: a bulk delete under SOFT_DELETE or SOFT_DELETE_CASCADE that has
\* returned leaves the rows, the total and the counts by model that deleting
\* the records of the queryset one by one, in any order, from the same store
\* leaves.
C8_BulkEqualsIterated ==
    ((BulkDelete_(SOFT_DELETE) \/ BulkDelete_(SOFT_DELETE_CASCADE)) /\ Returned) =>
        \A order \in Orders(Rows(last.pre, last.q)) :
            LET each == delete_each(last.pre, order, last.policy, clock, "none")
                ret == concatenate_delete_returns(each.rets)
            IN  /\ each.raised = "none"
                /\ each.store = store
                /\ ret.total = last.out.ret.total
                /\ \A model \in Models : Count(ret, model) = Count(last.out.ret, model)

\* C9: a call that raises leaves the store as it was before the call: the
\* single-record delete and undelete (under SOFT_DELETE_CASCADE and
\* HARD_DELETE_NOCASCADE in particular) and the bulk delete.
C9_AllOrNothing ==
    (last.op \in {"delete", "undelete", "qs_delete"} /\ ~Returned) => store = last.pre

\* A SOFT_DELETE_CASCADE delete that fails after the row of the root has been
\* written (the post_softdelete signal has been sent).
C9_Witness ==
    /\ SingleDelete(SOFT_DELETE_CASCADE) /\ ~Returned
    /\ Len(last.out.sigs) = 2
    /\ ~is_deleted(last.pre[last.self])

PostUndeletes == {i \in DOMAIN last.out.sigs : last.out.sigs[i].signal = "post_undelete"}

\* C10: a save that returns, of a record loaded from its row: without
\* keep_deleted a soft-deleted record gets the marker back and one
\* post_undelete signal is sent; with keep_deleted the deleted attribute is
\* left as it is and no post_undelete is sent; for a live record no
\* post_undelete is sent.
C10_SaveUndeletes ==
    (last.op = "save" /\ last.pk /\ Returned) =>
        LET was == last.pre[last.self].deleted
        IN  /\ (~last.keep_deleted /\ was # DEFAULT_DELETED) =>
                  /\ store[last.self].deleted = DEFAULT_DELETED
                  /\ last.out.sigs = <<Sent("post_undelete", last.self)>>
            /\ last.keep_deleted =>
                  /\ store[last.self].deleted = was
                  /\ PostUndeletes = {}
            /\ was = DEFAULT_DELETED => PostUndeletes = {}

C10_Witness ==
    /\ last.op = "save" /\ last.pk /\ Returned
    /\ last.keep_deleted
    /\ is_deleted(last.pre[last.self])

-----------------------------------------------------------------------------
(* Properties of the querysets.                                            *)

\* The rows the first evaluation of the queryset of a manager returns.
ManagerRows(st, model, visibility) ==
    evaluate(st, SafeDeleteQueryset(model, visibility, "pk")).rows

\* C11: in every state, a record of a safedelete model is returned by the
\* DELETED_INVISIBLE manager iff its deleted attribute is the marker, by the
\* DELETED_ONLY_VISIBLE manager iff it is not, and by the DELETED_VISIBLE
\* manager in both cases.
C11_VisibilityFollowsDeleted ==
    \A x \in SafeIds : store[x].exists =>
        /\ x \in ManagerRows(store, ModelOf[x], DELETED_INVISIBLE)
              <=> store[x].deleted = DEFAULT_DELETED
        /\ x \in ManagerRows(store, ModelOf[x], DELETED_ONLY_VISIBLE)
              <=> store[x].deleted # DEFAULT_DELETED
        /\ x \in ManagerRows(store, ModelOf[x], DELETED_VISIBLE)

\* A state after a call with a soft-deleted and a live record of one model.
C11_Witness ==
    /\ last.op \in {"delete", "qs_delete"}
    /\ \E x, y \in SafeIds :
          /\ ModelOf[x] = ModelOf[y]
          /\ store[x].exists /\ store[x].deleted # DEFAULT_DELETED
          /\ store[y].exists /\ store[y].deleted = DEFAULT_DELETED

\* The rows of a model that meet the conditions of an embedded query.
InnerRows(st, model, where) ==
    {y \in Ids : /\ ModelOf[y] = model
                 /\ st[y].exists
                 /\ \A i \in DOMAIN where : HoldsPlain(st, y, where[i])}

\* A filter or exclude that returned, with a queryset as the value.
FilteredIn == last.op = "filter" /\ last.v # NULL /\ last.built.raised = "none"

\* The condition a filter or exclude added to the query it returned.
Added == last.built.clone.where[Len(last.built.clone.where)]

\* C12: when a queryset is the value of a filter or exclude, keyword or Q
\* object, the embedded query selects no soft-deleted row if the queryset is
\* DELETED_INVISIBLE, and every soft-deleted row its own conditions select if
\* it is DELETED_VISIBLE; a filter through a DELETED_INVISIBLE queryset
\* returns no row whose key points at a soft-deleted record.
C12_EmbeddedQueryIsFiltered ==
    FilteredIn =>
        LET model == last.sub.model
            inner == InnerRows(store, model, Added.sub)
            own   == InnerRows(store, model, last.sub.where)
            f     == CHOOSE f \in FieldsOf(last.self.model) : f.name = in_lookups[Added.lookup]
        IN  /\ effective_visibility(last.sub) = DELETED_INVISIBLE =>
                  /\ \A y \in inner : ~is_deleted(store[y])
                  /\ ~last.args.negate =>
                        \A x \in evaluate(store, last.built.clone).rows :
                            ~is_deleted(store[store[x].fk[f.name]])
            /\ effective_visibility(last.sub) = DELETED_VISIBLE =>
                  \A y \in own : is_deleted(store[y]) => y \in inner

\* Whether a query has a condition on deleted.
HasDeletedCondition(where) ==
    \E i \in DOMAIN where : where[i].lookup = "deleted"

\* The conditions of a query other than those on deleted.
OwnConditions(where) ==
    SelectSeq(where, LAMBDA c : c.lookup # "deleted")

\* A filter(pk=...) that returned, on a queryset of a DELETED_VISIBLE_BY_FIELD
\* manager whose visibility field is pk.
TriggeredByField ==
    /\ last.op = "filter" /\ last.v = NULL
    /\ ~last.args.negate /\ last.args.form = "kwargs"
    /\ last.self.safedelete_visibility = DELETED_VISIBLE_BY_FIELD
    /\ last.args.lookup = last.self.safedelete_visibility_field
    /\ last.built.raised = "none"

\* C13: whatever was done before with a DELETED_VISIBLE_BY_FIELD queryset,
\* once a filter names its visibility field the queryset returned has no
\* condition on deleted when it is evaluated, the first time and again, and
\* returns the soft-deleted rows that meet its other conditions.
C13_TriggeredQuerySeesDeleted ==
    TriggeredByField =>
        LET first  == evaluate(store, last.built.clone)
            second == evaluate(store, first.self)
        IN  /\ first.raised = "none" /\ second.raised = "none"
            /\ ~HasDeletedCondition(first.self.where)
            /\ ~HasDeletedCondition(second.self.where)
            /\ \A x \in AllOf(last.self.model) :
                  (/\ store[x].exists /\ is_deleted(store[x])
                   /\ \A i \in DOMAIN OwnConditions(last.built.clone.where) :
                         Holds(store, last.self.model, x, OwnConditions(last.built.clone.where)[i]))
                  => x \in first.rows /\ x \in second.rows

\* An evaluation method or a slice, on a queryset that has not been given its
\* visibility condition yet.
EvaluatedFirst ==
    /\ last.op \in {"evaluate", "getitem"}
    /\ ~last.self.safedelete_filter_applied

\* The visibility in effect on the queryset the last call was made on: the
\* one forced, if any, else the one of the manager.
ModeOfSelf ==
    IF last.self.safedelete_force_visibility # None
        THEN last.self.safedelete_force_visibility
        ELSE last.self.safedelete_visibility

\* The query of the queryset after the call, if the visibility in effect
\* decides: deleted = marker, deleted # marker, or no condition added.
WhereByMode ==
    CASE ModeOfSelf \in {DELETED_INVISIBLE, DELETED_VISIBLE_BY_FIELD} ->
            Append(last.self.where,
                   [lookup |-> "deleted", value |-> "DEFAULT_DELETED",
                    negated |-> FALSE, sub |-> <<>>])
      [] ModeOfSelf = DELETED_ONLY_VISIBLE ->
            Append(last.self.where,
                   [lookup |-> "deleted", value |-> "DEFAULT_DELETED",
                    negated |-> TRUE, sub |-> <<>>])
      [] OTHER -> last.self.where

\* C14 as stated: at the first evaluation or slice of a queryset, the
\* condition added follows the visibility in effect, whatever the queryset.
C14_ConditionFollowsModeAlways ==
    EvaluatedFirst =>
        /\ last.built.raised = "none"
        /\ last.built.self.where = WhereByMode

\* C14: at the first evaluation or slice of a queryset, the condition added
\* follows the visibility in effect (deleted = marker for DELETED_INVISIBLE
\* and DELETED_VISIBLE_BY_FIELD not triggered, deleted # marker for
\* DELETED_ONLY_VISIBLE, none for the others), unless a slice was taken of
\* it before and the visibility asks for a condition: the call then raises
\* AssertionError and the queryset is left as it was.
C14_ConditionFollowsMode ==
    EvaluatedFirst =>
        IF last.self.sliced /\ WhereByMode # last.self.where
            THEN /\ last.built.raised = "AssertionError"
                 /\ last.built.self = last.self
                 /\ last.rows = {}
            ELSE /\ last.built.raised = "none"
                 /\ last.built.self.where = WhereByMode
                 /\ last.built.self.safedelete_filter_applied
                        = (WhereByMode # last.self.where)

\* A first evaluation of a DELETED_ONLY_VISIBLE queryset that returned a row.
C14_Witness ==
    /\ EvaluatedFirst /\ last.op = "evaluate"
    /\ ModeOfSelf = DELETED_ONLY_VISIBLE
    /\ last.built.raised = "none"
    /\ last.rows # {}

\* How many of the conditions of a query are on deleted.
DeletedConditions(where) ==
    Cardinality({i \in DOMAIN where : where[i].lookup = "deleted"})

\* C15: in every state, the query of every queryset held, and every query
\* embedded in it, has at most one condition on deleted; an evaluation or a
\* slice of a queryset that has its condition (itself evaluated before, or
\* cloned from one that was) leaves the query as it is.
C15_ConditionAtMostOnce ==
    /\ \A h \in Handles : querysets[h].model # NULL =>
          /\ DeletedConditions(querysets[h].where) <= 1
          /\ \A i \in DOMAIN querysets[h].where :
                DeletedConditions(querysets[h].where[i].sub) <= 1
    /\ (last.op \in {"evaluate", "getitem"} /\ last.self.safedelete_filter_applied) =>
          /\ last.built.raised = "none"
          /\ last.built.self.where = last.self.where
          /\ DeletedConditions(last.self.where) = 1

\* The evaluation of a clone, narrowed by a filter, of a queryset that had
\* been evaluated.
C15_Witness ==
    /\ last.op = "evaluate"
    /\ last.self.safedelete_filter_applied
    /\ Len(last.self.where) >= 2
    /\ last.self.where[1].lookup = "deleted"
    /\ last.built.raised = "none"

\* The foreign keys of the record a create was asked for that point at a
\* soft-deleted row, and those of them given by id.
KeysToDeleted ==
    {name \in DOMAIN last.args.fk :
        /\ last.args.fk[name] # NULL
        /\ last.pre[last.args.fk[name]].exists
        /\ last.pre[last.args.fk[name]].deleted # DEFAULT_DELETED}

KeysToDeletedById == {name \in KeysToDeleted : last.args.forms[name] = "id"}

\* The create was refused: the error names the model and the key of a
\* soft-deleted row among keys, and no row was inserted.
RefusedFor(keys) ==
    /\ last.built.raised = "SafeDeleteIntegrityError"
    /\ \E name \in keys :
          /\ last.built.message.pk = last.args.fk[name]
          /\ last.built.message.related_model = ModelOf[last.args.fk[name]]
    /\ store = last.pre

\* The create went through: the row is there, with its foreign keys.
Created ==
    /\ last.built.raised = "none"
    /\ ~last.pre[last.args.id].exists
    /\ store[last.args.id].exists
    /\ store[last.args.id].fk = last.args.fk
    /\ store[last.args.id].deleted = DEFAULT_DELETED
    /\ \A x \in Ids \ {last.args.id} : store[x] = last.pre[x]

\* C16 as stated: a create with a foreign key to a soft-deleted row is
\* refused when SAFE_DELETE_ALLOW_FK_TO_SOFT_DELETED_OBJECTS is False,
\* however the key is given, and goes through when it is True.
C16_GuardRefusesAnyKey ==
    (last.op = "create" /\ KeysToDeleted # {}) =>
        IF last.args.allow THEN Created ELSE RefusedFor(KeysToDeleted)

\* C16: a create with a foreign key to a soft-deleted row given by id
\* (<field>_id=pk) is refused when the setting is False, with the error
\* naming the related model and the key, and no row inserted; it goes
\* through when the setting is True, and when the keys to soft-deleted rows
\* are all given as instances.
C16_GuardRefusesKeyById ==
    (last.op = "create" /\ KeysToDeleted # {}) =>
        IF ~last.args.allow /\ KeysToDeletedById # {}
            THEN RefusedFor(KeysToDeletedById)
            ELSE Created

\* A create refused for a key given by id.
C16_Witness ==
    /\ last.op = "create"
    /\ ~last.args.allow
    /\ KeysToDeletedById # {}
    /\ last.built.raised = "SafeDeleteIntegrityError"

-----------------------------------------------------------------------------
(* Properties of undelete, of the bulk calls and of the signals.           *)

\* C17: undelete on a record whose deleted attribute is the marker raises
\* AssertionError, changes no row (the record and its dependents stay as they
\* were) and sends no signal; an undelete that returned was called on a
\* soft-deleted record.
C17_UndeleteOnlyFromDeleted ==
    last.op = "undelete" =>
        /\ last.pre[last.self].deleted = DEFAULT_DELETED =>
              /\ last.out.raised = "AssertionError"
              /\ store = last.pre
              /\ last.out.sigs = <<>>
        /\ last.out.raised = "none" =>
              /\ last.pre[last.self].deleted # DEFAULT_DELETED
              /\ store[last.self].deleted = DEFAULT_DELETED

\* An undelete called on a live record some soft-deleted row references.
C17_Witness ==
    /\ last.op = "undelete"
    /\ last.pre[last.self].deleted = DEFAULT_DELETED
    /\ \E d \in SafeIds :
          /\ last.self \in {last.pre[d].fk[n] : n \in DOMAIN last.pre[d].fk}
          /\ last.pre[d].exists /\ last.pre[d].deleted # DEFAULT_DELETED

\* C18: a bulk delete and a bulk undelete on a queryset a slice was taken of
\* raise AssertionError, change no row and send no signal, whatever the
\* policy of the model and the policy forced.
C18_SlicedBulkFailsFirst ==
    (last.op \in {"qs_delete", "qs_undelete"} /\ last.q.sliced) =>
        /\ last.out.raised = "AssertionError"
        /\ store = last.pre
        /\ last.out.sigs = <<>>

\* A bulk undelete on a slice of deleted_objects that yields a soft-deleted
\* record.
C18_Witness ==
    /\ last.op = "qs_undelete" /\ last.q.sliced
    /\ \E x \in Rows(last.pre, last.q) : is_deleted(last.pre[x])
    /\ last.out.raised = "AssertionError"

\* The policy a delete goes by: the one forced, if any, else the one of the
\* model of the record or of the queryset.
PolicyInEffect ==
    IF last.force_policy # None THEN last.force_policy
    ELSE safedelete_policy[IF last.op = "delete" THEN ModelOf[last.self] ELSE last.q.model]

\* C19 as stated: a delete whose policy in effect is NO_DELETE never raises,
\* single-record or bulk, whatever the queryset.
C19_NoDeleteNeverRaises ==
    (last.op \in {"delete", "qs_delete"}
        /\ PolicyInEffect = NO_DELETE)
        => last.out.raised = "none"

\* C19: a delete whose policy in effect is NO_DELETE raises in one case only,
\* the bulk form on a queryset a slice was taken of (AssertionError); the
\* single-record form and the bulk form on any other queryset return,
\* whatever fails below the library.
C19_NoDeleteRaisesOnlyOnSlice ==
    (last.op \in {"delete", "qs_delete"}
        /\ PolicyInEffect = NO_DELETE)
        => /\ last.out.raised \in {"none", "AssertionError"}
           /\ last.out.raised = "AssertionError" <=> (last.op = "qs_delete" /\ last.q.sliced)

\* A single-record delete of a soft-deleted record with NO_DELETE forced.
C19_Witness ==
    /\ last.op = "delete"
    /\ last.force_policy = NO_DELETE
    /\ safedelete_policy[ModelOf[last.self]] # NO_DELETE
    /\ is_deleted(last.pre[last.self])
    /\ last.out.raised = "none"

\* How many times a signal was sent for a record by the last call.
Emitted(signal, x) ==
    Cardinality({i \in DOMAIN last.out.sigs : last.out.sigs[i] = Sent(signal, x)})

\* The records the last call soft-deleted: their deleted attribute was
\* written and is not the marker.
SoftDeletedByCall ==
    {x \in Ids : /\ store[x].exists
                 /\ is_deleted(store[x])
                 /\ store[x].deleted # last.pre[x].deleted}

\* C20: after a single-record delete in which nothing failed below the
\* library, pre_softdelete and post_softdelete were each sent once for every
\* record the call soft-deleted, the root and its cascaded dependents, and
\* not at all for any other record.
C20_SignalsOncePerSoftDeleted ==
    (last.op = "delete" /\ last.out.raised \notin Injected) =>
        \A x \in Ids :
            LET n == IF x \in SoftDeletedByCall THEN 1 ELSE 0
            IN  /\ Emitted("pre_softdelete", x) = n
                /\ Emitted("post_softdelete", x) = n

SoftDeleteSignals == {"pre_softdelete", "post_softdelete"}

LiveCascadeDependents ==
    {d \in (CascadeDependents(last.pre, {last.self}, {}) \cap SafeIds) \ {last.self} :
        ~is_deleted(last.pre[d])}

\* C22: a single-record delete under SOFT_DELETE_CASCADE, nothing failing
\* below the library, returns 1 + n for a root with n live cascade dependents
\* of safedelete models; the count of every model is the number of its
\* records among them (the root included), so the counts sum to the total and
\* a record whose key was only nulled is not counted.
C22_CascadeCountsRootAndDependents ==
    (SingleDelete(SOFT_DELETE_CASCADE) /\ last.out.raised \notin Injected) =>
        LET counted == LiveCascadeDependents \cup {last.self}
        IN  /\ Returned
            /\ last.out.ret.total = Cardinality(counted)
            /\ \A model \in Models :
                  Count(last.out.ret, model)
                      = Cardinality({x \in counted : ModelOf[x] = model})

\* C23: a delete, single-record or bulk, whose policy in effect is
\* SOFT_DELETE, SOFT_DELETE_CASCADE or NO_DELETE removes no row: the rows in
\* the tables are the same before and after the call, whatever their model.
C23_SoftPoliciesKeepRows ==
    (last.op \in {"delete", "qs_delete"}
        /\ PolicyInEffect \in {SOFT_DELETE, SOFT_DELETE_CASCADE, NO_DELETE}) =>
        \A x \in Ids : store[x].exists = last.pre[x].exists

\* A bulk delete under SOFT_DELETE_CASCADE that returned, with a row of the
\* plain model and a row of a safedelete model among the cascade dependents.
C23_Witness ==
    /\ BulkDelete_(SOFT_DELETE_CASCADE) /\ Returned
    /\ \E x \in Rows(last.pre, last.q) :
          /\ "p1" \in CascadeDependents(last.pre, {x}, {})
          /\ \E d \in CascadeDependents(last.pre, {x}, {}) \cap SafeIds :
                d # x /\ ~is_deleted(last.pre[d]) /\ is_deleted(store[d])

\* C24: a single-record delete under SOFT_DELETE sends pre_softdelete, then
\* writes the deleted attribute, then sends post_softdelete.  When it returns,
\* both signals were sent in this order, the row differs from what it was in
\* its deleted attribute only, which is the time of the call, and the result
\* is (1, {model: 1}).  When the write is refused, pre_softdelete was sent
\* already and post_softdelete is not sent; when a listener of pre_softdelete
\* raises, nothing else is sent; in both cases the row is as it was.
C24_SoftDeleteOrder ==
    SingleDelete(SOFT_DELETE) =>
        LET pre  == Sent("pre_softdelete", last.self)
            post == Sent("post_softdelete", last.self)
        IN  /\ Returned =>
                  /\ last.out.sigs = <<pre, post>>
                  /\ store = [last.pre EXCEPT ![last.self].deleted = clock]
                  /\ last.out.ret.total = 1
                  /\ last.out.ret.per = (ModelOf[last.self] :> 1)
            /\ ~Returned =>
                  /\ store = last.pre
                  /\ last.out.sigs \in {<<pre>>, <<pre, post>>}
                  /\ last.out.raised = "DatabaseError" => last.out.sigs = <<pre>>

\* A delete under SOFT_DELETE, forced on a record of another policy that
\* holds a foreign key, that returned.
C24_Witness ==
    /\ SingleDelete(SOFT_DELETE) /\ Returned
    /\ last.force_policy = SOFT_DELETE
    /\ safedelete_policy[ModelOf[last.self]] # SOFT_DELETE
    /\ \E n \in DOMAIN last.pre[last.self].fk : last.pre[last.self].fk[n] # NULL

\* The records the last delete was asked to delete: the instance, or the rows
\* of the queryset.
Targets == IF last.op = "delete" THEN {last.self} ELSE Rows(last.pre, last.q)

\* C25: a delete, single-record or bulk, whose policy in effect is SOFT_DELETE
\* leaves every record it was not asked to delete exactly as it was (none is
\* soft-deleted, no foreign key is rewritten, whatever its on_delete), and
\* changes nothing but the deleted attribute of the others.
C25_SoftDeleteTouchesTargetsOnly ==
    (last.op \in {"delete", "qs_delete"} /\ PolicyInEffect = SOFT_DELETE) =>
        \A x \in Ids :
            IF x \in Targets
                THEN /\ store[x].exists = last.pre[x].exists
                     /\ store[x].fk = last.pre[x].fk
                     /\ Returned => store[x].deleted = clock
                ELSE store[x] = last.pre[x]

\* A delete under SOFT_DELETE that returned, of a record a live record
\* references through a CASCADE key and another through a SET_NULL key.
C25_Witness ==
    /\ last.op \in {"delete", "qs_delete"} /\ PolicyInEffect = SOFT_DELETE /\ Returned
    /\ \E x \in Targets :
          /\ \E d \in ReferencingBy(last.pre, x, CASCADE) \ Targets : ~is_deleted(last.pre[d])
          /\ \E d \in ReferencingBy(last.pre, x, SET_NULL) \ Targets : ~is_deleted(last.pre[d])

SoftPolicyDelete ==
    /\ last.op \in {"delete", "qs_delete"}
    /\ PolicyInEffect \in {SOFT_DELETE, SOFT_DELETE_CASCADE}

\* The records that the records to delete hold a foreign key to, and that the
\* call was not asked to delete.
ReferencedByTargets ==
    {y \in Ids \ Targets : \E x \in Targets : \E n \in DOMAIN last.pre[x].fk : last.pre[x].fk[n] = y}

\* C26 as stated: a delete under a soft policy, single-record or bulk, leaves
\* every record that a deleted record references as it was.
C26_ReferencedNeverChanged ==
    SoftPolicyDelete => \A y \in ReferencedByTargets : store[y] = last.pre[y]

\* C26: a delete under a soft policy, single-record or bulk, leaves as it was
\* every record that a deleted record references, unless that record itself
\* reaches a deleted record through CASCADE or SET_NULL keys (the keys form a
\* cycle): the cascade goes from a record to those referencing it only.
C26_ReferencedChangedOnlyAsDependent ==
    SoftPolicyDelete =>
        \A y \in ReferencedByTargets :
            \/ store[y] = last.pre[y]
            \/ y \in CascadeDependents(last.pre, Targets, {})
            \/ \E r \in CascadeDependents(last.pre, Targets, {}) \cup Targets :
                  y \in ReferencingBy(last.pre, r, SET_NULL)

\* A bulk delete under SOFT_DELETE_CASCADE that soft-deleted a dependent of a
\* record which references a live record outside its cascade.
C26_Witness ==
    /\ SoftPolicyDelete /\ PolicyInEffect = SOFT_DELETE_CASCADE /\ Returned
    /\ \E y \in ReferencedByTargets \ CascadeDependents(last.pre, Targets, {}) :
          ~is_deleted(last.pre[y])
    /\ \E d \in SoftDeletedByCall : d \notin Targets

\* The records of the models that are not safedelete models.
PlainIds == {x \in Ids : ModelOf[x] \notin DOMAIN safedelete_policy}

\* C27: a delete under SOFT_DELETE_CASCADE, single-record or bulk, leaves
\* every record of a model that is not a safedelete model as it was, those in
\* the cascade set included, and counts none of them in its result.
C27_PlainDependentsUntouched ==
    (last.op \in {"delete", "qs_delete"} /\ PolicyInEffect = SOFT_DELETE_CASCADE) =>
        \A x \in PlainIds :
            /\ store[x] = last.pre[x]
            /\ Returned => Count(last.out.ret, ModelOf[x]) = 0

\* A bulk delete under SOFT_DELETE_CASCADE that returned a count, with a
\* record of the plain model in the cascade set of a record of the queryset.
C27_Witness ==
    /\ BulkDelete_(SOFT_DELETE_CASCADE) /\ Returned
    /\ last.out.ret.total >= 1
    /\ \E x \in PlainIds : x \in CascadeDependents(last.pre, Rows(last.pre, last.q), {})

\* The soft-deleted records of safedelete models, not asked to be deleted,
\* that hold a SET_NULL key to a record to delete or to one of its cascade
\* dependents.
DeletedNullifyDependents ==
    {d \in SafeIds \ Targets :
        /\ is_deleted(last.pre[d])
        /\ \E r \in Targets \cup CascadeDependents(last.pre, Targets, {}) :
              d \in ReferencingBy(last.pre, r, SET_NULL)}

\* C28: a delete under SOFT_DELETE_CASCADE, single-record or bulk, leaves as
\* it was every soft-deleted record whose SET_NULL key points at a deleted
\* record: the key keeps its value and the row is not written.
C28_DeletedDependentsKeepKey ==
    (last.op \in {"delete", "qs_delete"} /\ PolicyInEffect = SOFT_DELETE_CASCADE) =>
        \A d \in DeletedNullifyDependents : store[d] = last.pre[d]

\* A bulk delete under SOFT_DELETE_CASCADE that returned, of a record a
\* soft-deleted record references through a SET_NULL key.
C28_Witness ==
    /\ BulkDelete_(SOFT_DELETE_CASCADE) /\ Returned
    /\ \E d \in DeletedNullifyDependents :
          \E x \in Targets : x \in SoftDeletedByCall /\ store[d].fk["ref"] = x

-----------------------------------------------------------------------------
(* Properties of the cascade plan.                                         *)

\* The sets of records of one model that get_objects_to_delete may be given
\* in the store st.
InputObjects(st) ==
    UNION {(SUBSET {x \in AllOf(model) : st[x].exists}) \ {{}} : model \in Models}

\* The records of a plan, whatever their model.
Planned(plan) == UNION {plan[model] : model \in DOMAIN plan}

\* C29: in every state, for every set of records of one model and with
\* return_deleted set or not, the plan of get_objects_to_delete holds none of
\* the records it was given, also when one of them references another.
C29_PlanExcludesInput ==
    \A objs \in InputObjects(store) : \A return_deleted \in BOOLEAN :
        Planned(get_objects_to_delete(store, objs, return_deleted)) \cap objs = {}

\* A bulk delete under SOFT_DELETE_CASCADE of two records of which one
\* references the other, that counted each of them once.
C29_Witness ==
    /\ BulkDelete_(SOFT_DELETE_CASCADE) /\ Returned
    /\ \E x, y \in Rows(last.pre, last.q) :
          /\ x # y
          /\ x \in ReferencingBy(last.pre, y, CASCADE)
          /\ Planned(get_objects_to_delete(last.pre, Rows(last.pre, last.q), FALSE))
                \cap Rows(last.pre, last.q) = {}
    /\ Count(last.out.ret, last.q.model) = Cardinality(Rows(last.pre, last.q))

\* The records a plan is to hold for objs: those that reach objs through
\* CASCADE keys, objs left out, and, unless return_deleted, the soft-deleted
\* records of safedelete models left out.
ExpectedInPlan(st, objs, return_deleted) ==
    {x \in CascadeDependents(st, objs, {}) \ objs :
        \/ return_deleted
        \/ ModelOf[x] \notin DOMAIN safedelete_policy
        \/ st[x].deleted = DEFAULT_DELETED}

\* C30: in every state and for every set of records of one model, the plan
\* without return_deleted holds no soft-deleted record of a safedelete model
\* and no model without a record, and the plan with return_deleted holds the
\* soft-deleted records too: each plan maps the models of the records
\* expected, and no other, to these records.
C30_PlanFollowsReturnDeleted ==
    \A objs \in InputObjects(store) : \A return_deleted \in BOOLEAN :
        LET plan == get_objects_to_delete(store, objs, return_deleted)
            expected == ExpectedInPlan(store, objs, return_deleted)
        IN  /\ DOMAIN plan = {ModelOf[x] : x \in expected}
            /\ \A model \in DOMAIN plan :
                  /\ plan[model] = {x \in expected : ModelOf[x] = model}
                  /\ plan[model] # {}
            /\ ~return_deleted =>
                  \A x \in Planned(plan) \cap SafeIds : ~is_deleted(store[x])

\* A bulk delete under SOFT_DELETE_CASCADE that returned, with a model whose
\* only cascade dependent was soft-deleted before: the model is not in the
\* plan without return_deleted, and is in the plan with it.
C30_Witness ==
    /\ BulkDelete_(SOFT_DELETE_CASCADE) /\ Returned /\ Targets # {}
    /\ \E d \in CascadeDependents(last.pre, Targets, {}) \cap SafeIds :
          /\ is_deleted(last.pre[d])
          /\ ModelOf[d] \notin DOMAIN get_objects_to_delete(last.pre, Targets, FALSE)
          /\ d \in Planned(get_objects_to_delete(last.pre, Targets, TRUE))
          /\ store[d] = last.pre[d]

-----------------------------------------------------------------------------
(* Properties of undelete under SOFT_DELETE_CASCADE and of the bulk         *)
(* undelete.                                                               *)

\* The records of safedelete models, soft-deleted before the last call, that
\* reach its instance through CASCADE keys or hold a SET_NULL key to it.
DeletedRelated ==
    {d \in SafeIds \ {last.self} :
        /\ is_deleted(last.pre[d])
        /\ \/ d \in CascadeDependents(last.pre, {last.self}, {})
           \/ d \in ReferencingBy(last.pre, last.self, SET_NULL)}

\* C31: an undelete under SOFT_DELETE_CASCADE of a soft-deleted record,
\* nothing failing below the library, returns, and the record and every
\* soft-deleted record of a safedelete model in its cascade set or holding a
\* SET_NULL key to it are live afterwards.
C31_CascadeUndeleteRevivesRelated ==
    (last.op = "undelete" /\ last.policy = SOFT_DELETE_CASCADE
        /\ is_deleted(last.pre[last.self]) /\ last.out.raised \notin Injected) =>
        /\ Returned
        /\ ~is_deleted(store[last.self])
        /\ \A d \in DeletedRelated : ~is_deleted(store[d])

\* The records the last call brought back: soft-deleted before, live after.
Revived == {x \in Ids : store[x].exists /\ is_deleted(last.pre[x]) /\ ~is_deleted(store[x])}

\* C32: after a single-record undelete in which nothing failed below the
\* library, post_undelete was sent once for every record the call brought
\* back, the instance and the dependents of its cascade, and for no other;
\* and when the write of the instance is refused no post_undelete is sent.
C32_PostUndeleteOncePerRevived ==
    last.op = "undelete" =>
        /\ last.out.raised \notin Injected =>
              \A x \in Ids :
                  Emitted("post_undelete", x) = IF x \in Revived THEN 1 ELSE 0
        /\ last.out.raised = "DatabaseError" => PostUndeletes = {}

-----------------------------------------------------------------------------
(* Properties of derived querysets.                                        *)

\* A call that returned a queryset derived from the one it was made on.
Derived ==
    /\ last.op \in {"filter", "all", "getitem"}
    /\ last.built.raised = "none"

\* The attributes of a queryset that decide its visibility.
VisibilityState(self) ==
    <<self.safedelete_visibility, self.safedelete_visibility_field,
      self.safedelete_force_visibility, self.safedelete_filter_applied>>

\* C33: the queryset returned by filter, exclude, get, all or a slice has the
\* visibility, the visibility field, the forced visibility and the
\* filter-applied flag its parent has when it is cloned, that is, as the call
\* leaves the parent.
C33_CloneCarriesVisibility ==
    Derived => VisibilityState(last.built.clone) = VisibilityState(last.built.self)

\* A queryset derived from a parent that has its condition and a forced
\* visibility.
C33_Witness ==
    /\ Derived
    /\ last.built.self.safedelete_filter_applied
    /\ last.built.self.safedelete_force_visibility # None
    /\ last.built.self.safedelete_visibility # DELETED_INVISIBLE

\* C34: a filter, exclude, all or slice leaves the queryset it is called on
\* as it was for a later evaluation: evaluated after the call, the parent
\* returns the rows it would have returned evaluated instead of the call.
C34_DerivationLeavesParent ==
    Derived =>
        LET before == evaluate(store, last.self)
            after  == evaluate(store, last.built.self)
        IN  /\ after.raised = before.raised
            /\ after.rows = before.rows

\* A bulk undelete on a queryset no slice was taken of, nothing failing below
\* the library.
BulkUndeleted ==
    /\ last.op = "qs_undelete" /\ ~last.q.sliced
    /\ last.out.raised \notin Injected

\* C35: a bulk undelete leaves what undelete, called with the same forced
\* policy on every record the queryset yields, in some order, leaves: the
\* same store, the same signals, the same exception if any.  On a queryset
\* that yields soft-deleted records only it returns, and every one of them
\* is live afterwards.
C35_BulkUndeleteIsIterated ==
    BulkUndeleted =>
        /\ \E order \in Orders(Rows(last.pre, last.q)) :
              LET each == undelete_each(last.pre, last.pre, order, last.force_policy, "none")
              IN  /\ each.store = store
                  /\ each.sigs = last.out.sigs
                  /\ each.raised = last.out.raised
        /\ (\A x \in Rows(last.pre, last.q) : is_deleted(last.pre[x])) =>
              /\ Returned
              /\ \A x \in Rows(last.pre, last.q) : ~is_deleted(store[x])

\* C36: a bulk undelete that raises leaves the store as it was before the
\* call: the records it reactivated before the failure are soft-deleted
\* again.
C36_BulkUndeleteAllOrNothing ==
    (last.op = "qs_undelete" /\ ~Returned) => store = last.pre

-----------------------------------------------------------------------------
(* The single-record delete and undelete statement by statement: a third   *)
(* state machine, of two threads that each make one call on the same       *)
(* database.  A thread's writes stay in its transaction until the outermost *)
(* atomic block is left: the other thread reads the committed rows, and a  *)
(* row written in an open transaction is locked for the other thread.      *)

\* The deepest nesting of delete calls the model follows.
MaxDepth == 3

\* timezone.now() of the call of each thread.
Now == [t1 |-> 1, t2 |-> 2]

\* What a thread reads: the committed rows under the writes of its own
\* transaction.
View(st, th) ==
    [x \in Ids |-> IF x \in DOMAIN th.writes THEN th.writes[x] ELSE st[x]]

\* The rows a statement changes, taking the thread's view to st1.
Changed(st, th, st1) == {x \in Ids : st1[x] # View(st, th)[x]}

\* The transaction after a statement that takes the thread's view to st1.
Written(st, th, st1) ==
    [x \in DOMAIN th.writes \cup Changed(st, th, st1) |-> st1[x]]

\* Leaving the outermost atomic block without an exception: the writes of
\* the transaction reach the committed rows, the other rows stay as the other
\* transactions committed them.
commit_snapshot(st, th) == View(last.pre, th)

commit(st, th) == View(st, th)

\* HARD_DELETE_NOCASCADE: the policy the method calls itself with.
fallback_policy_same(can) == HARD_DELETE_NOCASCADE

fallback_policy(can) == IF can THEN HARD_DELETE ELSE SOFT_DELETE

\* current_policy of the frame the thread is in.
current_policy(th) ==
    IF th.op = "delete" THEN get_safelete_policy(ModelOf[th.self.id], th.frame_policy)
    ELSE IF th.force_policy = None THEN safedelete_policy[ModelOf[th.self.id]]
    ELSE th.force_policy

\* A row written in the open transaction of another thread is locked.
Unlocked(t, rows) ==
    \A u \in Threads \ {t} : DOMAIN threads[u].writes \cap rows = {}

\* What a step of thread t leaves: the thread, and the committed rows.
Goes(t, th) == threads' = [threads EXCEPT ![t] = th]

Raises(th, raised) == [th EXCEPT !.pc = "rollback", !.raised = raised]

\* obj.delete(force_policy) or obj.undelete(force_policy) as it is called.
Called(t, st, op, id, force_policy) ==
    [NoThread EXCEPT !.pc = "enter", !.op = op, !.self = Instance(st, id),
                     !.force_policy = force_policy, !.frame_policy = force_policy,
                     !.now = Now[t]]

\* obj = Model.all_objects.get(pk=...); obj.delete(force_policy) or
\* obj.undelete(force_policy) is called.
Begin(t) ==
    /\ threads[t].pc = "idle"
    /\ \E op \in {"delete", "undelete"}, id \in SafeIds, force_policy \in {None, SOFT_DELETE, HARD_DELETE, HARD_DELETE_NOCASCADE} :
          /\ store[id].exists
          /\ op = "undelete" => force_policy \in {None, SOFT_DELETE}
          /\ Goes(t, Called(t, store, op, id, force_policy))
    /\ UNCHANGED store

\* with transaction.atomic(): current_policy = ...; the branch is taken.
Enter(t) ==
    LET th == threads[t]
        in == [th EXCEPT !.depth = th.depth + 1]
        current == current_policy(th)
    IN  /\ th.pc = "enter"
        /\ th.depth < MaxDepth
        /\ Goes(t, IF th.op = "undelete"
                       THEN IF is_deleted(th.self) THEN [in EXCEPT !.pc = "save"]
                            ELSE Raises(in, "AssertionError")
                   ELSE IF current = NO_DELETE THEN [in EXCEPT !.pc = "exit"]
                   ELSE IF current = HARD_DELETE THEN [in EXCEPT !.pc = "hard"]
                   ELSE IF current = HARD_DELETE_NOCASCADE
                       THEN [in EXCEPT !.pc = "can_hard_delete"]
                   ELSE [in EXCEPT !.pc = "pre_softdelete"])
        /\ UNCHANGED store

\* if not can_hard_delete(self): return self.delete(force_policy=SOFT_DELETE)
\* else: return self.delete(force_policy=HARD_DELETE)
CanHardDelete(t) ==
    LET th == threads[t]
        can == can_hard_delete(View(store, th), th.self.id)
    IN  /\ th.pc = "can_hard_delete"
        /\ Goes(t, [th EXCEPT !.pc = "enter", !.frame_policy = fallback_policy(can)])
        /\ UNCHANGED store

\* return super().delete()
Hard(t) ==
    LET th == threads[t]
        out == delete_hard(View(store, th), th.self.id)
    IN  /\ th.pc = "hard"
        /\ Unlocked(t, Changed(store, th, out.store))
        /\ Goes(t, [th EXCEPT !.pc = "exit", !.ret = out.ret,
                              !.writes = Written(store, th, out.store)])
        /\ UNCHANGED store

\* self.deleted = timezone.now(); pre_softdelete.send(...)
PreSoftdelete(t) ==
    LET th == threads[t]
    IN  /\ th.pc = "pre_softdelete"
        /\ Goes(t, [th EXCEPT !.pc = "save_deleted", !.self.deleted = th.now,
                              !.sigs = Append(th.sigs, Sent("pre_softdelete", th.self.id))])
        /\ UNCHANGED store

\* super().save(update_fields=["deleted"]); delete_returns.append(...)
SaveDeleted(t) ==
    LET th == threads[t]
        view == View(store, th)
        st1 == save_deleted(view, th.self.id, th.now)
    IN  /\ th.pc = "save_deleted"
        /\ Unlocked(t, {th.self.id})
        /\ Goes(t, IF ~view[th.self.id].exists THEN Raises(th, "DatabaseError")
                   ELSE [th EXCEPT !.pc = "post_softdelete",
                                   !.ret = concatenate_delete_returns(
                                               <<DeleteReturn(1, ModelOf[th.self.id] :> 1)>>),
                                   !.writes = Written(store, th, st1)])
        /\ UNCHANGED store

\* post_softdelete.send(...)
PostSoftdelete(t) ==
    LET th == threads[t]
    IN  /\ th.pc = "post_softdelete"
        /\ Goes(t, [th EXCEPT !.pc = IF current_policy(th) = SOFT_DELETE_CASCADE
                                         THEN "related" ELSE "exit",
                              !.sigs = Append(th.sigs, Sent("post_softdelete", th.self.id))])
        /\ UNCHANGED store

\* self.save(keep_deleted=False)
SaveUndeleted(t) ==
    LET th == threads[t]
        out == save(View(store, th), th.self, FALSE, "none")
    IN  /\ th.pc = "save"
        /\ Unlocked(t, {th.self.id})
        /\ Goes(t, [th EXCEPT !.pc = IF current_policy(th) = SOFT_DELETE_CASCADE
                                         THEN "related" ELSE "exit",
                              !.self.deleted = out.deleted,
                              !.sigs = th.sigs \o out.sigs,
                              !.writes = Written(store, th, out.store)])
        /\ UNCHANGED store

\* fast_deletes, objects_to_delete = get_objects_to_delete([self], ...)
Related(t) ==
    LET th == threads[t]
        objects_to_delete == get_objects_to_delete(View(store, th), {th.self.id},
                                                   th.op = "undelete")
    IN  /\ th.pc = "related"
        /\ Goes(t, Raises(th, UnpackError(objects_to_delete)))
        /\ UNCHANGED store

\* The outermost atomic block is left by a return: the transaction commits.
Exit(t) ==
    LET th == threads[t]
    IN  /\ th.pc = "exit"
        /\ store' = commit(store, th)
        /\ Goes(t, [th EXCEPT !.pc = "done", !.writes = <<>>])

\* The atomic blocks are left by the exception: the transaction rolls back.
Rollback(t) ==
    LET th == threads[t]
    IN  /\ th.pc = "rollback"
        /\ Goes(t, [th EXCEPT !.pc = "done", !.writes = <<>>, !.ret = NoneDeleted])
        /\ UNCHANGED store

Run(t) ==
    \/ Enter(t) \/ CanHardDelete(t) \/ Hard(t) \/ PreSoftdelete(t) \/ SaveDeleted(t)
    \/ PostSoftdelete(t) \/ SaveUndeleted(t) \/ Related(t) \/ Exit(t) \/ Rollback(t)

\* The rows before the calls: the two Ref rows reference each other or not,
\* the Note references one of them, and the second Ref, the Doc and the Leaf
\* are live or were soft-deleted at time 3.
StepInit ==
    /\ \E cyclic \in BOOLEAN, nr \in {"r1", "r2"},
          rd \in {DEFAULT_DELETED, 3}, dd \in {DEFAULT_DELETED, 3}, ld \in {DEFAULT_DELETED, 3} :
          store = [r1 |-> Live([parent |-> IF cyclic THEN "r2" ELSE NULL]),
                   r2 |-> [Live([parent |-> IF cyclic THEN "r1" ELSE NULL]) EXCEPT !.deleted = rd],
                   d1 |-> [Live([ref |-> "r1"]) EXCEPT !.deleted = dd],
                   l1 |-> [Live([doc |-> "d1", ref |-> NULL]) EXCEPT !.deleted = ld],
                   n1 |-> Live([ref |-> nr]),
                   p1 |-> Live([ref |-> "r1"])]
    /\ clock = 0
    /\ last = [NoCall EXCEPT !.pre = store]
    /\ querysets = NoQuerysets
    /\ threads = [t \in Threads |-> NoThread]

StepNext ==
    /\ \E t \in Threads : Begin(t) \/ Run(t)
    /\ UNCHANGED <<clock, last, querysets>>

StepSpec == StepInit /\ [][StepNext]_vars

\* The same two threads on the rows with the second Ref soft-deleted, the
\* two Refs referencing each other or not, the second thread having made its
\* call: a HARD_DELETE_NOCASCADE delete of the first Ref, a HARD_DELETE
\* delete of the Doc or an undelete of the second Ref.
LiveInit ==
    /\ \E cyclic \in BOOLEAN :
          store = [r1 |-> Live([parent |-> IF cyclic THEN "r2" ELSE NULL]),
                   r2 |-> [Live([parent |-> IF cyclic THEN "r1" ELSE NULL]) EXCEPT !.deleted = 3],
                   d1 |-> Live([ref |-> "r1"]),
                   l1 |-> Live([doc |-> "d1", ref |-> NULL]),
                   n1 |-> Live([ref |-> "r2"]),
                   p1 |-> Live([ref |-> "r1"])]
    /\ clock = 0
    /\ last = [NoCall EXCEPT !.pre = store]
    /\ querysets = NoQuerysets
    /\ \E call \in {<<"delete", "r1", HARD_DELETE_NOCASCADE>>,
                     <<"delete", "d1", HARD_DELETE>>,
                     <<"undelete", "r2", None>>} :
          threads = [[t \in Threads |-> NoThread] EXCEPT
                        !["t2"] = Called("t2", store, call[1], call[2], call[3])]

\* A call that was made runs its next statement: the interpreter goes on,
\* and the database grants a lock once the transaction holding it is over.
StepLive ==
    /\ LiveInit /\ [][StepNext]_vars
    /\ \A t \in Threads : WF_vars(Run(t) /\ UNCHANGED <<clock, last, querysets>>)

-----------------------------------------------------------------------------
(* Properties of the calls statement by statement.                         *)

\* C37: every delete and undelete call that was made comes to its end,
\* whatever the rows and the other thread, on rows that reference each other
\* in a cycle too; the delete calls are never nested deeper than two (the
\* call, then the call with the forced fallback policy).
C37_CallsTerminate ==
    /\ [](\A t \in Threads : threads[t].depth <= 2)
    /\ \A t \in Threads : (threads[t].pc # "idle") ~> (threads[t].pc = "done")

\* A HARD_DELETE_NOCASCADE delete of a Ref in a cycle of cascade keys came to
\* its end from the nested call.
C37_Witness ==
    \E t \in Threads :
        /\ threads[t].pc = "done" /\ threads[t].depth = 2
        /\ ModelOf[threads[t].self.id] = "Ref"
        /\ last.pre["r1"].fk.parent = "r2" /\ last.pre["r2"].fk.parent = "r1"

\* The records a delete or undelete of id may touch: the root, the records
\* that reference it through cascade keys, whatever their deleted attribute,
\* and the records whose nullable key would be nulled.
Affected(st, id) ==
    LET c == get_collector(st, {id})
    IN  c.data \cup {u.obj : u \in c.field_updates}

\* The call of thread t made alone on the rows st.
Sequential(st, t) ==
    LET th == threads[t]
    IN  IF th.op = "delete"
            THEN delete(st, th.self.id, th.force_policy, Now[t], "none")
            ELSE undelete(st, Instance(st, th.self.id), th.force_policy, "none")

\* Both calls are over, and no record is affected by both.
DisjointCalls ==
    /\ \A t \in Threads : threads[t].pc = "done"
    /\ Affected(last.pre, threads["t1"].self.id) \cap Affected(last.pre, threads["t2"].self.id) = {}

\* C38: two calls whose affected records are disjoint, their statements
\* interleaved in any way: once both are over the rows are what the two calls
\* made one after the other leave, in either order, and each call returned,
\* signalled and raised what it does in that sequence.
C38_DisjointCallsIndependent ==
    DisjointCalls =>
        \A a \in Threads : \A b \in Threads \ {a} :
            LET first  == Sequential(last.pre, a)
                second == Sequential(first.store, b)
                same(t, out) == /\ threads[t].ret = out.ret
                                /\ threads[t].sigs = out.sigs
                                /\ threads[t].raised = out.raised
            IN  /\ store = second.store
                /\ same(a, first)
                /\ same(b, second)

\* Two calls on disjoint records are over and each changed the row of its
\* root.
C38_Witness ==
    /\ DisjointCalls
    /\ \A t \in Threads : store[threads[t].self.id] # last.pre[threads[t].self.id]

-----------------------------------------------------------------------------
(* Properties of the records of a NO_DELETE model.                         *)

NoDeleteIds == {x \in SafeIds : safedelete_policy[ModelOf[x]] = NO_DELETE}

\* A delete, single-record or bulk, called without force_policy.
UnforcedDelete == last.op \in {"delete", "qs_delete"} /\ last.force_policy = None

-----------------------------------------------------------------------------
(* What undelete leaves alone.                                             *)

\* C40: an undelete, single-record or bulk, returning or raising, changes
\* deleted attributes only: every row is in its table or not as before, and
\* every foreign key has the value it had before the call; a key that an
\* earlier delete under SOFT_DELETE_CASCADE nulled is still null.
C40_UndeleteChangesDeletedOnly ==
    last.op \in {"undelete", "qs_undelete"} =>
        \A x \in Ids :
            /\ store[x].exists = last.pre[x].exists
            /\ store[x].fk = last.pre[x].fk

\* The undelete of a Ref brought it back after a delete under
\* SOFT_DELETE_CASCADE had soft-deleted it and nulled the key of the Note
\* that referenced it.
C40_Witness ==
    /\ last.op \in {"undelete", "qs_undelete"} /\ Returned
    /\ \E r \in {"r1", "r2"} :
          /\ is_deleted(last.pre[r]) /\ ~is_deleted(store[r])
          /\ \E n \in DOMAIN store[r].fk : store[r].fk[n] # NULL
    /\ store["n1"].exists /\ store["n1"].fk.ref = NULL

====
